---- MODULE Spec2Model ----
(***************************************************************************)
(* DocuCleanAI: the document store routes (GET/POST/DELETE                 *)
(* /api/documents), the OCR adapter and the background processing engine   *)
(* (processDocumentBackground) of the Express server, and the transcript   *)
(* state of the editor component (EditorView) of the client.               *)
(*                                                                         *)
(* Node runs the handlers on one thread: code between two awaits is one    *)
(* atomic step, and every await is a point where other handlers run.       *)
(* Each action below is the completion of one awaited operation together   *)
(* with the synchronous code that follows it up to the next await.         *)
(***************************************************************************)
EXTENDS Integers, Sequences, FiniteSets, TLC

\* ---------------------------------------------------------------- bounds
MaxPages == 2
ScenarioPages == 3
MaxReqs == 2
MaxFaults == 1
WidePages == 1
MaxBlocks == 2
MaxToggles == 2
MaxSaves == 1

\* ------------------------------------------------------ program constants
MaxAttempts == 5

\* the ids that are plain names, each the name of its directory
Ids == {"A", "B"}

\* an id that is a relative path: path.join resolves it to the directory B
DotB == "./B"

\* path.join(DATA_DIR, docId), as the name of the directory below DATA_DIR
DirOf(id) == IF id = DotB THEN "B" ELSE id
Reqs == 1..MaxReqs
PageNos == 1..(MaxPages + ScenarioPages)

\* --------------------------------------------------------- OCR block lists
HelloBlocks == << [text |-> "Hello", label |-> "TITLE"] >>
BodyBlocks == << [text |-> "Body", label |-> "MAIN_TEXT"],
                [text |-> "n1", label |-> "FOOTNOTE"] >>
OcrResults == {HelloBlocks, BodyBlocks}

\* a JavaScript value that is an array, and one that is not (undefined)
Array(list) == [isArray |-> TRUE, list |-> list]
Undefined == [isArray |-> FALSE, list |-> << >>]

\* an element of a block list that is null instead of an object
NullBlock == [null |-> TRUE]
IsNull(block) == "null" \in DOMAIN block

\* block.text || '' and block.label of an object that may lack either
TextOf(block) == IF "text" \in DOMAIN block THEN block.text ELSE ""
LabelOf(block) == IF "label" \in DOMAIN block THEN block.label ELSE "undefined"

\* a callback that treats every label as plain text
blockToMarkdownPlain(block) == TextOf(block) \o "\n\n"

\* the callback of blocks.map
blockToMarkdown(block) ==
  CASE LabelOf(block) = "TITLE" -> "# " \o TextOf(block) \o "\n\n"
    [] LabelOf(block) = "HEADER" -> "_" \o TextOf(block) \o "_\n\n"
    [] LabelOf(block) = "FOOTER" -> "_" \o TextOf(block) \o "_\n\n"
    [] LabelOf(block) = "CAPTION" -> "*" \o TextOf(block) \o "*\n\n"
    [] LabelOf(block) = "FOOTNOTE" -> "^ " \o TextOf(block) \o "\n\n"
    [] OTHER -> TextOf(block) \o "\n\n"

\* blocks.map(...).join('')
RECURSIVE JoinPieces(_)
JoinPieces(blocks) ==
  IF blocks = << >> THEN ""
  ELSE blockToMarkdown(Head(blocks)) \o JoinPieces(Tail(blocks))

\* a call that throws, and one that returns a string
Thrown == [threw |-> TRUE, text |-> ""]
Returned(text) == [threw |-> FALSE, text |-> text]

\* blocksToMarkdown of a value: '' for what is not an array; reading .text
\* of a null element throws a TypeError
blocksToMarkdown(v) ==
  IF ~v.isArray THEN Returned("")
  ELSE IF \E k \in 1..Len(v.list) : IsNull(v.list[k]) THEN Thrown
  ELSE Returned(JoinPieces(v.list))

\* -------------------------------------------------- processPageWithGemini
\* response.text of the external model: nothing, text that is not JSON, the
\* JSON value null, or a JSON object whose member blocks is v
NoPayload == [kind |-> "empty"]
NotJson == [kind |-> "text"]
JsonNull == [kind |-> "null"]
JsonObject(v) == [kind |-> "object", blocks |-> v]

\* the adapter throws, or returns value; called: generateContent was called
Failed(called) == [threw |-> TRUE, called |-> called, value |-> Undefined]
Replied(value) == [threw |-> FALSE, called |-> TRUE, value |-> value]

\* JSON.parse(textResponse).blocks
ParseBlocks(payload) ==
  IF payload.kind = "object" THEN Replied(payload.blocks) ELSE Failed(TRUE)

\* key: GEMINI_API_KEY is set; call: generateContent "returns" or "throws"
\* (a rejected request, a status that is not a success)
processPageWithGemini(key, call, payload) ==
  IF ~key THEN Failed(FALSE)
  ELSE IF call = "throws" THEN Failed(TRUE)
  ELSE ParseBlocks(payload)

\* ---------------------------------------------------- data URIs of images
Letters == {"a", "b", "c", "d", "e", "f", "g", "h", "i", "j", "k", "l", "m",
            "n", "o", "p", "q", "r", "s", "t", "u", "v", "w", "x", "y", "z",
            "A", "B", "C", "D", "E", "F", "G", "H", "I", "J", "K", "L", "M",
            "N", "O", "P", "Q", "R", "S", "T", "U", "V", "W", "X", "Y", "Z"}

\* the character class [A-Za-z-+\/]
MimeChars == Letters \cup {"-", "+", "/"}

Jpeg == << "i", "m", "a", "g", "e", "/", "j", "p", "e", "g" >>
Png == << "i", "m", "a", "g", "e", "/", "p", "n", "g" >>
Jp2 == << "i", "m", "a", "g", "e", "/", "j", "p", "2" >>

\* imageUrl.match(/^data:([A-Za-z-+\/]+);base64,(.+)$/) of a data: URI
\* with this MIME type and a payload that is not empty
MimeMatches(mime) ==
  Len(mime) > 0 /\ \A k \in 1..Len(mime) : mime[k] \in MimeChars

\* ------------------------------------------------------------- documents
NoPages == << >>
NoDoc == [status |-> "none", type |-> "file", pagesArray |-> TRUE,
          pages |-> NoPages, processedPages |-> 0, startProcessing |-> FALSE]
\* metadata.json: missing, holding text that JSON.parse rejects, or holding
\* the JSON of a document
NoMeta == [exists |-> FALSE, valid |-> FALSE, doc |-> NoDoc]
CorruptMeta == [exists |-> TRUE, valid |-> FALSE, doc |-> NoDoc]
NoFile == [exists |-> FALSE, text |-> ""]

\* a page as rasterised by the client: imageUrl is a data: URI (of the MIME
\* type mime) or, once stored, the path of the image file
PendingPage == [status |-> "pending", imageUrl |-> "data", mime |-> Jpeg,
                hasBlocks |-> FALSE, blocks |-> << >>]

\* page.blocks as a JavaScript value
BlocksOf(page) == IF page.hasBlocks THEN Array(page.blocks) ELSE Undefined

\* a document as the client submits it after rasterising n page images
FreshDoc(n, start) ==
  [status |-> "pending", type |-> "file", pagesArray |-> TRUE,
   pages |-> [k \in 1..n |-> PendingPage],
   processedPages |-> 0, startProcessing |-> start]

\* a request: pc, id, doc (the item, then docData, then currentData), the
\* loop index i, the read attempt, the response and how the run ended; read
\* (the metadata the run read at startup), failed (the indices of the pages
\* that failed in this run) and atEnd (the page loop was left at its end)
\* only record what the run did, mdThrew that a call of blocksToMarkdown
\* by this request threw
IdleReq == [pc |-> "idle", id |-> "A", doc |-> NoDoc, i |-> 0,
            attempt |-> 0, resp |-> "none", run |-> "none",
            read |-> NoDoc, failed |-> {}, atEnd |-> FALSE,
            entries |-> << >>, items |-> << >>, mdThrew |-> FALSE]

VARIABLES
  dir,               \* dir[d]: the directory DATA_DIR/<d> exists
  meta,              \* meta[d]: DATA_DIR/<d>/metadata.json
  imgs,              \* imgs[d]: the n with an image file page_<n>.<ext>
  md,                \* md[d][n]: the file page_<n>.md
  activeProcessing,  \* the Set of document ids being processed
  req,               \* req[u]: one POST/DELETE request and the run it starts
  faults,            \* injected I/O failures so far
  ocrLog,            \* ocrLog[u]: page indices handed to the OCR adapter
  writer,            \* writer[d]: who wrote metadata.json last
  lastPP,            \* lastPP[d]: processedPages of the engine's last write
  editor             \* the EditorView of the client: its props and state

vars == << dir, meta, imgs, md, activeProcessing, req, faults, ocrLog,
           writer, lastPP, editor >>

fsVars == << dir, meta, imgs, md >>

\* the labels the editor includes when it is created
DefaultLabels == << "TITLE", "MAIN_TEXT" >>

\* the document handed to the editor: savedText may be absent
NoEditDoc == [id |-> "A", pages |-> NoPages, hasSavedText |-> FALSE,
              savedText |-> ""]

\* no editor is open; the fields hold the initial values of useState, toggles
\* counts the label toggles and saves records the calls of onSave
NoEditor == [mounted |-> FALSE, doc |-> NoEditDoc, cleanText |-> "",
             isSaved |-> TRUE, selectedLabels |-> DefaultLabels,
             toggles |-> 0, saves |-> << >>]

Init ==
  /\ dir = [id \in Ids |-> FALSE]
  /\ meta = [id \in Ids |-> NoMeta]
  /\ imgs = [id \in Ids |-> {}]
  /\ md = [id \in Ids |-> [n \in PageNos |-> NoFile]]
  /\ activeProcessing = {}
  /\ req = [u \in Reqs |-> IdleReq]
  /\ faults = 0
  /\ ocrLog = [u \in Reqs |-> << >>]
  /\ writer = [id \in Ids |-> "none"]
  /\ lastPP = [id \in Ids |-> -1]
  /\ editor = NoEditor

\* ------------------------------------------------------------ file system
MetaFile(d) == [exists |-> TRUE, valid |-> TRUE, doc |-> d]
MarkdownFile(v) == [exists |-> TRUE, text |-> blocksToMarkdown(v).text]

\* fs.existsSync(metadataPath)
MetaExists(id) == dir[DirOf(id)] /\ meta[DirOf(id)].exists

\* readFile and JSON.parse of metadata.json can return
MetaReadable(id) == MetaExists(id) /\ meta[DirOf(id)].valid

\* fs.existsSync(imagePath) for path.basename(page.imageUrl): a reference
\* that is still embedded data names no file of the directory
ImageExists(id, page, i) ==
  dir[DirOf(id)] /\ page.imageUrl = "path" /\ (i + 1) \in imgs[DirOf(id)]

\* an awaited operation that returns / that throws; `possible` is false when
\* the file or directory it needs is gone, so that it can only throw
IoOk(possible) == possible /\ faults' = faults
IoFail(possible) ==
  IF possible THEN faults < MaxFaults /\ faults' = faults + 1
  ELSE faults' = faults

\* every step of the server changes the record of one request; the editor
\* lives in the browser and is not touched by it
SetReq(u, r) == req' = [req EXCEPT ![u] = r] /\ UNCHANGED editor

\* ------------------------------------------- POST /api/documents (upsert)
UpsertError(r) == [r EXCEPT !.pc = "done", !.resp = "error"]

\* item.type === 'file' && item.pages && Array.isArray(item.pages)
HasPageFiles(d) == d.type = "file" /\ d.pagesArray

\* page.imageUrl.startsWith('data:') and the pattern matches
IsEmbedded(page) == page.imageUrl = "data" /\ MimeMatches(page.mime)

\* page.status === 'completed' && page.blocks
HasMarkdown(page) == page.status = "completed" /\ page.hasBlocks

\* the markdown branch of page i: blocksToMarkdown runs before the await
UpsertMarkdown(r, i) ==
  IF blocksToMarkdown(BlocksOf(r.doc.pages[i + 1])).threw
    THEN UpsertError([r EXCEPT !.mdThrew = TRUE])
  ELSE [r EXCEPT !.pc = "u_md", !.i = i]

\* a handler that writes the metadata without looking at the pages
UpsertPagesSkipped(r, i) == [r EXCEPT !.pc = "u_meta", !.i = i]

\* the page loop of the handler, from page i up to its next await
RECURSIVE UpsertPagesFrom(_, _)
UpsertPagesFrom(r, i) ==
  IF ~HasPageFiles(r.doc) \/ i >= Len(r.doc.pages)
    THEN [r EXCEPT !.pc = "u_meta", !.i = i]
  ELSE IF IsEmbedded(r.doc.pages[i + 1]) THEN [r EXCEPT !.pc = "u_img", !.i = i]
  ELSE IF HasMarkdown(r.doc.pages[i + 1]) THEN UpsertMarkdown(r, i)
  ELSE UpsertPagesFrom(r, i + 1)

UpsertAfterImage(r) ==
  IF HasMarkdown(r.doc.pages[r.i + 1]) THEN UpsertMarkdown(r, r.i)
  ELSE UpsertPagesFrom(r, r.i + 1)

\* what a client posts for id: a new document, or the stored one read back
Items(id, maxPages) ==
  IF MetaReadable(id)
    THEN {[meta[DirOf(id)].doc EXCEPT !.startProcessing = s] : s \in BOOLEAN}
  ELSE {FreshDoc(n, s) : n \in 0..maxPages, s \in BOOLEAN}

\* requests are numbered in the order of their arrival
IsNext(u) == req[u].pc = "idle" /\ \A v \in 1..(u - 1) : req[v].pc # "idle"

Receive(u, id, item) ==
  /\ IsNext(u)
  /\ LET r == [req[u] EXCEPT !.id = id, !.doc = item] IN
       SetReq(u, IF dir[DirOf(id)] THEN UpsertPagesFrom(r, 0)
                 ELSE [r EXCEPT !.pc = "u_mkdir"])
  /\ UNCHANGED << fsVars, activeProcessing, faults, ocrLog, writer, lastPP >>

UpsertMkdirOk(u) ==
  /\ req[u].pc = "u_mkdir"
  /\ IoOk(TRUE)
  /\ dir' = [dir EXCEPT ![DirOf(req[u].id)] = TRUE]
  /\ SetReq(u, UpsertPagesFrom(req[u], 0))
  /\ UNCHANGED << meta, imgs, md, activeProcessing, ocrLog, writer, lastPP >>

UpsertMkdirFail(u) ==
  /\ req[u].pc = "u_mkdir"
  /\ IoFail(TRUE)
  /\ SetReq(u, UpsertError(req[u]))
  /\ UNCHANGED << fsVars, activeProcessing, ocrLog, writer, lastPP >>

UpsertImageOk(u) ==
  /\ req[u].pc = "u_img"
  /\ IoOk(dir[DirOf(req[u].id)])
  /\ imgs' = [imgs EXCEPT ![DirOf(req[u].id)] = @ \cup {req[u].i + 1}]
  /\ SetReq(u, UpsertAfterImage(
        [req[u] EXCEPT !.doc.pages[req[u].i + 1].imageUrl = "path"]))
  /\ UNCHANGED << dir, meta, md, activeProcessing, ocrLog, writer, lastPP >>

UpsertImageFail(u) ==
  /\ req[u].pc = "u_img"
  /\ IoFail(dir[DirOf(req[u].id)])
  /\ SetReq(u, UpsertError(req[u]))
  /\ UNCHANGED << fsVars, activeProcessing, ocrLog, writer, lastPP >>

UpsertMarkdownOk(u) ==
  /\ req[u].pc = "u_md"
  /\ IoOk(dir[DirOf(req[u].id)])
  /\ md' = [md EXCEPT ![DirOf(req[u].id)][req[u].i + 1] =
              MarkdownFile(BlocksOf(req[u].doc.pages[req[u].i + 1]))]
  /\ SetReq(u, UpsertPagesFrom(req[u], req[u].i + 1))
  /\ UNCHANGED << dir, meta, imgs, activeProcessing, ocrLog, writer, lastPP >>

UpsertMarkdownFail(u) ==
  /\ req[u].pc = "u_md"
  /\ IoFail(dir[DirOf(req[u].id)])
  /\ SetReq(u, UpsertError(req[u]))
  /\ UNCHANGED << fsVars, activeProcessing, ocrLog, writer, lastPP >>

UpsertMetaFail(u) ==
  /\ req[u].pc = "u_meta"
  /\ IoFail(dir[DirOf(req[u].id)])
  /\ SetReq(u, UpsertError(req[u]))
  /\ UNCHANGED << fsVars, activeProcessing, ocrLog, writer, lastPP >>

\* ------------------------------------------------ DELETE /api/documents/:id
\* the handler up to its await: a missing directory is answered at once
Delete(u, id) ==
  /\ IsNext(u)
  /\ SetReq(u, [req[u] EXCEPT
        !.pc = IF dir[DirOf(id)] THEN "d_rm" ELSE "done",
        !.id = id, !.run = "delete",
        !.resp = IF dir[DirOf(id)] THEN "none" ELSE "ok"])
  /\ UNCHANGED << fsVars, activeProcessing, faults, ocrLog, writer, lastPP >>

\* an rm that removes nothing and still returns
DeleteRmNothing(u) ==
  /\ req[u].pc = "d_rm"
  /\ IoOk(TRUE)
  /\ SetReq(u, [req[u] EXCEPT !.pc = "done", !.resp = "ok"])
  /\ UNCHANGED << fsVars, activeProcessing, ocrLog, writer, lastPP >>

\* fs.promises.rm(docDir, {recursive, force}) returns
DeleteRmOk(u) ==
  /\ req[u].pc = "d_rm"
  /\ IoOk(TRUE)
  /\ SetReq(u, [req[u] EXCEPT !.pc = "done", !.resp = "ok"])
  /\ dir' = [dir EXCEPT ![DirOf(req[u].id)] = FALSE]
  /\ meta' = [meta EXCEPT ![DirOf(req[u].id)] = NoMeta]
  /\ imgs' = [imgs EXCEPT ![DirOf(req[u].id)] = {}]
  /\ md' = [md EXCEPT ![DirOf(req[u].id)] = [n \in PageNos |-> NoFile]]
  /\ writer' = [writer EXCEPT ![DirOf(req[u].id)] = "none"]
  /\ lastPP' = [lastPP EXCEPT ![DirOf(req[u].id)] = -1]
  /\ UNCHANGED << activeProcessing, ocrLog >>

\* fs.promises.rm throws: the directory stays
DeleteRmFail(u) ==
  /\ req[u].pc = "d_rm"
  /\ IoFail(TRUE)
  /\ SetReq(u, [req[u] EXCEPT !.pc = "done", !.resp = "error"])
  /\ UNCHANGED << fsVars, activeProcessing, ocrLog, writer, lastPP >>

\* ------------------------------------------------------ GET /api/documents
\* readdir lists the entries in the order of their names
RECURSIVE SeqOf(_)
SeqOf(ids) ==
  IF ids = {} THEN << >>
  ELSE LET first == CHOOSE a \in ids : \A b \in ids \ {a} :
                      (a = "A" \/ b # "A")
       IN << first >> \o SeqOf(ids \ {first})

\* the handler up to its first await; the request record holds entries (the
\* directories still to read, in req.entries from index req.i on) and items
List(u) ==
  /\ IsNext(u)
  /\ SetReq(u, [req[u] EXCEPT !.pc = "l_dir", !.run = "list"])
  /\ UNCHANGED << fsVars, activeProcessing, faults, ocrLog, writer, lastPP >>

\* the loop over the entries up to its next await, or res.json(items)
ListFrom(r) ==
  IF r.i >= Len(r.entries) THEN [r EXCEPT !.pc = "done", !.resp = "ok"]
  ELSE [r EXCEPT !.pc = "l_read"]

ListDirOk(u) ==
  /\ req[u].pc = "l_dir"
  /\ IoOk(TRUE)
  /\ SetReq(u, ListFrom([req[u] EXCEPT !.i = 0,
                           !.entries = SeqOf({id \in Ids : dir[id]})]))
  /\ UNCHANGED << fsVars, activeProcessing, ocrLog, writer, lastPP >>

\* readdir throws: the handler answers 500
ListDirFail(u) ==
  /\ req[u].pc = "l_dir"
  /\ IoFail(TRUE)
  /\ SetReq(u, [req[u] EXCEPT !.pc = "done", !.resp = "error"])
  /\ UNCHANGED << fsVars, activeProcessing, ocrLog, writer, lastPP >>

\* items.push(JSON.parse(data))
ListReadOk(u) ==
  /\ req[u].pc = "l_read"
  /\ LET id == req[u].entries[req[u].i + 1] IN
       /\ IoOk(MetaReadable(id))
       /\ SetReq(u, ListFrom([req[u] EXCEPT !.i = @ + 1,
             !.items = Append(@, [id |-> id, doc |-> meta[id].doc])]))
  /\ UNCHANGED << fsVars, activeProcessing, ocrLog, writer, lastPP >>

\* a listing that gives up at the first directory it cannot read
ListReadAborts(u) ==
  /\ req[u].pc = "l_read"
  /\ IoFail(MetaReadable(req[u].entries[req[u].i + 1]))
  /\ SetReq(u, [req[u] EXCEPT !.pc = "done", !.resp = "error"])
  /\ UNCHANGED << fsVars, activeProcessing, ocrLog, writer, lastPP >>

\* readFile or JSON.parse throws: the entry is skipped
ListReadFail(u) ==
  /\ req[u].pc = "l_read"
  /\ IoFail(MetaReadable(req[u].entries[req[u].i + 1]))
  /\ SetReq(u, ListFrom([req[u] EXCEPT !.i = @ + 1]))
  /\ UNCHANGED << fsVars, activeProcessing, ocrLog, writer, lastPP >>

\* --------------------------------------------- processDocumentBackground
EnginePcs == {"delay", "rmeta", "backoff", "wstatus", "rimg", "ocr", "wmd",
              "wmeta", "werr", "wfinal", "fread", "fwrite"}

\* a finally block that forgets the delete
ReleaseNothing(active, id) == active

\* activeProcessing.delete(docId)
Release(active, id) == active \ {id}

\* the set after a step that leaves the run in state r: a run that has
\* returned went through its finally block
ActiveAfter(r) ==
  IF r.pc = "done" THEN Release(activeProcessing, r.id) ELSE activeProcessing

\* some() where every() is meant
AllFailedSome(d) == \E k \in 1..Len(d.pages) : d.pages[k].status = "error"

\* a test that asks for at least one page
AllFailedNonEmpty(d) ==
  /\ Len(d.pages) > 0
  /\ \A k \in 1..Len(d.pages) : d.pages[k].status = "error"

\* docData.pages.every(p => p.status === 'error')
AllFailed(d) == \A k \in 1..Len(d.pages) : d.pages[k].status = "error"

\* the two outcomes swapped
FinalStatusSwapped(d) == IF AllFailed(d) THEN "ready" ELSE "error"

FinalStatus(d) == IF AllFailed(d) THEN "error" ELSE "ready"

\* a loop that stops one page early
RECURSIVE NextIndexShort(_, _)
NextIndexShort(d, i) ==
  IF i >= Len(d.pages) - 1 THEN Len(d.pages)
  ELSE IF d.pages[i + 1].status = "completed" THEN NextIndexShort(d, i + 1)
  ELSE i

\* a loop without the skip of completed pages
NextIndexNoSkip(d, i) == i

\* a loop that also skips the pages that failed before
RECURSIVE NextIndexSkipsError(_, _)
NextIndexSkipsError(d, i) ==
  IF i >= Len(d.pages) THEN i
  ELSE IF d.pages[i + 1].status \in {"completed", "error"}
    THEN NextIndexSkipsError(d, i + 1)
  ELSE i

\* the loop index of the next page that is not skipped as completed
RECURSIVE NextIndex(_, _)
NextIndex(d, i) ==
  IF i >= Len(d.pages) THEN i
  ELSE IF d.pages[i + 1].status = "completed" THEN NextIndex(d, i + 1)
  ELSE i

\* a catch block that forgets to mark the page
PageFailedNoMark(d, i) == [d EXCEPT !.processedPages = i + 1]

\* the per-page catch block
PageFailed(d, i) ==
  [d EXCEPT !.pages[i + 1].status = "error", !.processedPages = i + 1]

\* the success branch after the OCR call returned blocks
PageCompleted(d, i, v) ==
  [d EXCEPT !.pages[i + 1].blocks = v.list, !.pages[i + 1].hasBlocks = v.isArray,
            !.pages[i + 1].status = "completed", !.processedPages = i + 1]

\* a throw inside the per-page try block: the run enters the catch block
Catch(r) ==
  [r EXCEPT !.pc = "werr", !.doc = PageFailed(r.doc, r.i),
            !.failed = @ \cup {r.i}]

\* an outer catch that swallows the error and starts the next page
FatalGoesOn(r) ==
  IF r.i + 1 < Len(r.doc.pages) THEN [r EXCEPT !.pc = "rimg", !.i = r.i + 1]
  ELSE [r EXCEPT !.pc = "wfinal"]

\* the outer catch block up to its first await
Fatal(r) ==
  IF MetaExists(r.id) THEN [r EXCEPT !.pc = "fread", !.run = "fatal"]
  ELSE [r EXCEPT !.pc = "done", !.run = "fatal"]

\* the page loop from index i0 up to its next await; docData.pages that is
\* not an array makes the loop or pages.every throw outside the page's try
LoopFrom(r, d, i0) ==
  LET i == NextIndex(d, i0) IN
    IF ~d.pagesArray THEN Fatal([r EXCEPT !.doc = d])
    ELSE IF i >= Len(d.pages)
      THEN [r EXCEPT !.pc = "wfinal", !.i = i, !.atEnd = TRUE,
                     !.doc = [d EXCEPT !.status = FinalStatus(d)]]
    ELSE IF ImageExists(r.id, d.pages[i + 1], i)
      THEN [r EXCEPT !.pc = "rimg", !.i = i, !.doc = d]
    ELSE Catch([r EXCEPT !.i = i, !.doc = d])

\* a run that goes on to the final status write without docData
AbortGoesOn(r) == [r EXCEPT !.pc = "wfinal"]

\* if (!docData) { activeProcessing.delete(docId); return; }
Abort(r) == [r EXCEPT !.pc = "done", !.run = "aborted"]

\* the metadata read loop from attempt a up to its next await: a missing
\* file does not throw, so the remaining attempts follow without a wait
ReadFrom(r, a) ==
  IF a < MaxAttempts /\ MetaExists(r.id)
    THEN [r EXCEPT !.pc = "rmeta", !.attempt = a]
  ELSE Abort([r EXCEPT !.attempt = a])

\* a guard that lets every call through
AlreadyActiveNever(id) == FALSE

\* the guard of processDocumentBackground
AlreadyActive(id) == id \in activeProcessing

\* a handler that calls the engine whatever the item carries
TriggerAlways(u) ==
  /\ SetReq(u, [req[u] EXCEPT !.pc = "delay", !.resp = "ok",
                              !.run = "active", !.i = 0])
  /\ activeProcessing' = activeProcessing \cup {req[u].id}

\* the synchronous code after the metadata write: the fire-and-forget call
\* of the engine, which runs up to its first await, and res.json(item)
Trigger(u) ==
  IF req[u].doc.startProcessing
    THEN IF AlreadyActive(req[u].id)
           THEN /\ SetReq(u, [req[u] EXCEPT !.pc = "done", !.resp = "ok",
                                            !.run = "noop"])
                /\ UNCHANGED activeProcessing
         ELSE /\ SetReq(u, [req[u] EXCEPT !.pc = "delay", !.resp = "ok",
                                          !.run = "active", !.i = 0])
              /\ activeProcessing' = activeProcessing \cup {req[u].id}
  ELSE /\ SetReq(u, [req[u] EXCEPT !.pc = "done", !.resp = "ok"])
       /\ UNCHANGED activeProcessing

UpsertMetaOk(u) ==
  /\ req[u].pc = "u_meta"
  /\ IoOk(dir[DirOf(req[u].id)])
  /\ meta' = [meta EXCEPT ![DirOf(req[u].id)] = MetaFile(req[u].doc)]
  /\ writer' = [writer EXCEPT ![DirOf(req[u].id)] = "upsert"]
  /\ Trigger(u)
  /\ UNCHANGED << dir, imgs, md, ocrLog, lastPP >>

\* one step of a run that writes nothing: the run moves to state r
Step(u, r) ==
  /\ SetReq(u, r)
  /\ activeProcessing' = ActiveAfter(r)
  /\ UNCHANGED << fsVars, ocrLog, writer, lastPP >>

\* one step of a run that rewrites metadata.json with d
StepWrite(u, r, d, by) ==
  /\ SetReq(u, r)
  /\ activeProcessing' = ActiveAfter(r)
  /\ meta' = [meta EXCEPT ![DirOf(r.id)] = MetaFile(d)]
  /\ writer' = [writer EXCEPT ![DirOf(r.id)] = by]
  /\ lastPP' = [lastPP EXCEPT ![DirOf(r.id)] = d.processedPages]
  /\ UNCHANGED << dir, imgs, md, ocrLog >>

Delay(u) ==
  /\ req[u].pc = "delay"
  /\ UNCHANGED faults
  /\ Step(u, ReadFrom(req[u], 0))

ReadMetaOk(u) ==
  /\ req[u].pc = "rmeta"
  /\ IoOk(MetaReadable(req[u].id))
  /\ LET d == meta[DirOf(req[u].id)].doc
         r == [req[u] EXCEPT !.read = d, !.attempt = 0]
     IN IF d.status # "processing"
          THEN Step(u, [r EXCEPT !.pc = "wstatus",
                                 !.doc = [d EXCEPT !.status = "processing"]])
        ELSE Step(u, LoopFrom(r, d, 0))

\* readFile or JSON.parse throws: the loop itself bounds these failures
ReadMetaFail(u) ==
  /\ req[u].pc = "rmeta"
  /\ UNCHANGED faults
  /\ Step(u, [req[u] EXCEPT !.pc = "backoff"])

\* a retry loop that does not count its attempts
BackoffForever(u) ==
  /\ req[u].pc = "backoff"
  /\ UNCHANGED faults
  /\ Step(u, ReadFrom(req[u], req[u].attempt))

Backoff(u) ==
  /\ req[u].pc = "backoff"
  /\ UNCHANGED faults
  /\ Step(u, ReadFrom(req[u], req[u].attempt + 1))

\* a run that starts the page loop without storing the status
WriteStatusSkipped(u) ==
  /\ req[u].pc = "wstatus"
  /\ IoOk(dir[DirOf(req[u].id)])
  /\ Step(u, LoopFrom(req[u], req[u].doc, 0))

WriteStatusOk(u) ==
  /\ req[u].pc = "wstatus"
  /\ IoOk(dir[DirOf(req[u].id)])
  /\ StepWrite(u, LoopFrom(req[u], req[u].doc, 0), req[u].doc, "engine")

WriteStatusFail(u) ==
  /\ req[u].pc = "wstatus"
  /\ IoFail(dir[DirOf(req[u].id)])
  /\ Step(u, Fatal(req[u]))

ReadImageOk(u) ==
  /\ req[u].pc = "rimg"
  /\ IoOk(ImageExists(req[u].id, req[u].doc.pages[req[u].i + 1], req[u].i))
  /\ SetReq(u, [req[u] EXCEPT !.pc = "ocr"])
  /\ ocrLog' = [ocrLog EXCEPT ![u] = Append(@, req[u].i)]
  /\ UNCHANGED << fsVars, activeProcessing, writer, lastPP >>

ReadImageFail(u) ==
  /\ req[u].pc = "rimg"
  /\ IoFail(ImageExists(req[u].id, req[u].doc.pages[req[u].i + 1], req[u].i))
  /\ Step(u, Catch(req[u]))

\* the OCR call settles with out; blocksToMarkdown runs before the next await
OcrSettles(u, out) ==
  /\ req[u].pc = "ocr"
  /\ UNCHANGED faults
  /\ IF out.threw THEN Step(u, Catch(req[u]))
     ELSE LET r == [req[u] EXCEPT
                     !.doc = PageCompleted(req[u].doc, req[u].i, out.value)]
          IN IF blocksToMarkdown(out.value).threw
               THEN Step(u, Catch([r EXCEPT !.mdThrew = TRUE]))
             ELSE Step(u, [r EXCEPT !.pc = "wmd"])

\* the model answers with a well-formed block list
OcrOk(u, blocks) ==
  OcrSettles(u, processPageWithGemini(TRUE, "returns", JsonObject(Array(blocks))))

\* the call of the model throws
OcrFail(u) == OcrSettles(u, processPageWithGemini(TRUE, "throws", NoPayload))

\* any configuration, any outcome of the call and any payload
OcrAny(u, key, call, payload) ==
  OcrSettles(u, processPageWithGemini(key, call, payload))

\* a run that goes on to the metadata without having written the file
WriteMarkdownLost(u) ==
  /\ req[u].pc = "wmd"
  /\ IoOk(dir[DirOf(req[u].id)])
  /\ Step(u, [req[u] EXCEPT !.pc = "wmeta"])

WriteMarkdownOk(u) ==
  /\ req[u].pc = "wmd"
  /\ IoOk(dir[DirOf(req[u].id)])
  /\ md' = [md EXCEPT ![DirOf(req[u].id)][req[u].i + 1] =
              MarkdownFile(BlocksOf(req[u].doc.pages[req[u].i + 1]))]
  /\ SetReq(u, [req[u] EXCEPT !.pc = "wmeta"])
  /\ UNCHANGED << dir, meta, imgs, activeProcessing, ocrLog, writer, lastPP >>

WriteMarkdownFail(u) ==
  /\ req[u].pc = "wmd"
  /\ IoFail(dir[DirOf(req[u].id)])
  /\ Step(u, Catch(req[u]))

WriteMetaOk(u) ==
  /\ req[u].pc = "wmeta"
  /\ IoOk(dir[DirOf(req[u].id)])
  /\ StepWrite(u, LoopFrom(req[u], req[u].doc, req[u].i + 1), req[u].doc,
               "engine")

WriteMetaFail(u) ==
  /\ req[u].pc = "wmeta"
  /\ IoFail(dir[DirOf(req[u].id)])
  /\ Step(u, Catch(req[u]))

WriteErrOk(u) ==
  /\ req[u].pc = "werr"
  /\ IoOk(dir[DirOf(req[u].id)])
  /\ StepWrite(u, LoopFrom(req[u], req[u].doc, req[u].i + 1), req[u].doc,
               "engine")

\* a catch block that creates the directory again when its write finds none
WriteErrRecreates(u) ==
  /\ req[u].pc = "werr"
  /\ IoFail(dir[DirOf(req[u].id)])
  /\ dir' = [dir EXCEPT ![DirOf(req[u].id)] = TRUE]
  /\ SetReq(u, LoopFrom(req[u], req[u].doc, req[u].i + 1))
  /\ activeProcessing' = ActiveAfter(LoopFrom(req[u], req[u].doc, req[u].i + 1))
  /\ meta' = [meta EXCEPT ![DirOf(req[u].id)] = MetaFile(req[u].doc)]
  /\ writer' = [writer EXCEPT ![DirOf(req[u].id)] = "engine"]
  /\ lastPP' = [lastPP EXCEPT ![DirOf(req[u].id)] = req[u].doc.processedPages]
  /\ UNCHANGED << imgs, md, ocrLog >>

WriteErrFail(u) ==
  /\ req[u].pc = "werr"
  /\ IoFail(dir[DirOf(req[u].id)])
  /\ Step(u, Fatal(req[u]))

\* a final write that reads the file again and stores only its own status
WriteFinalMerged(u) ==
  /\ req[u].pc = "wfinal"
  /\ IoOk(dir[DirOf(req[u].id)])
  /\ StepWrite(u, [req[u] EXCEPT !.pc = "done", !.run = "finished"],
               [meta[DirOf(req[u].id)].doc EXCEPT !.status = req[u].doc.status],
               "engine")

WriteFinalOk(u) ==
  /\ req[u].pc = "wfinal"
  /\ IoOk(dir[DirOf(req[u].id)])
  /\ StepWrite(u, [req[u] EXCEPT !.pc = "done", !.run = "finished"],
               req[u].doc, "engine")

WriteFinalFail(u) ==
  /\ req[u].pc = "wfinal"
  /\ IoFail(dir[DirOf(req[u].id)])
  /\ Step(u, Fatal(req[u]))

\* an outer catch that stores its own docData instead of the file's content
FatalReadStale(u) ==
  /\ req[u].pc = "fread"
  /\ IoOk(MetaReadable(req[u].id))
  /\ Step(u, [req[u] EXCEPT !.pc = "fwrite", !.doc.status = "error"])

FatalReadOk(u) ==
  /\ req[u].pc = "fread"
  /\ IoOk(MetaReadable(req[u].id))
  /\ Step(u, [req[u] EXCEPT !.pc = "fwrite",
        !.doc = [meta[DirOf(req[u].id)].doc EXCEPT !.status = "error"]])

FatalReadFail(u) ==
  /\ req[u].pc = "fread"
  /\ IoFail(MetaReadable(req[u].id))
  /\ Step(u, [req[u] EXCEPT !.pc = "done"])

FatalWriteOk(u) ==
  /\ req[u].pc = "fwrite"
  /\ IoOk(dir[DirOf(req[u].id)])
  /\ StepWrite(u, [req[u] EXCEPT !.pc = "done"], req[u].doc, "fatal")

FatalWriteFail(u) ==
  /\ req[u].pc = "fwrite"
  /\ IoFail(dir[DirOf(req[u].id)])
  /\ Step(u, [req[u] EXCEPT !.pc = "done"])

\* ---------------------------------------------------------- specification
Upsert(u) ==
  \/ UpsertMkdirOk(u) \/ UpsertMkdirFail(u)
  \/ UpsertImageOk(u) \/ UpsertImageFail(u)
  \/ UpsertMarkdownOk(u) \/ UpsertMarkdownFail(u)
  \/ UpsertMetaOk(u) \/ UpsertMetaFail(u)

Remove(u) == DeleteRmOk(u) \/ DeleteRmFail(u)

Engine(u) ==
  \/ Delay(u)
  \/ ReadMetaOk(u) \/ ReadMetaFail(u) \/ Backoff(u)
  \/ WriteStatusOk(u) \/ WriteStatusFail(u)
  \/ ReadImageOk(u) \/ ReadImageFail(u)
  \/ (\E blocks \in OcrResults : OcrOk(u, blocks)) \/ OcrFail(u)
  \/ WriteMarkdownOk(u) \/ WriteMarkdownFail(u)
  \/ WriteMetaOk(u) \/ WriteMetaFail(u)
  \/ WriteErrOk(u) \/ WriteErrFail(u)
  \/ WriteFinalOk(u) \/ WriteFinalFail(u)
  \/ FatalReadOk(u) \/ FatalReadFail(u)
  \/ FatalWriteOk(u) \/ FatalWriteFail(u)

ListAll(u) ==
  \/ ListDirOk(u) \/ ListDirFail(u)
  \/ ListReadOk(u) \/ ListReadFail(u)

\* the requests of one client working on document A
Next ==
  \E u \in Reqs :
    \/ (\E item \in Items("A", MaxPages) : Receive(u, "A", item))
    \/ Delete(u, "A")
    \/ Remove(u)
    \/ Upsert(u)
    \/ Engine(u)

Spec == Init /\ [][Next]_vars

\* every awaited operation of a request in flight returns or throws
Fairness ==
  \A u \in Reqs : WF_vars(Upsert(u)) /\ WF_vars(Engine(u)) /\ WF_vars(Remove(u))

FairSpec == Spec /\ Fairness

\* the same client when it waits for an upsert and the run it started to end
\* before it sends the next upsert; a delete may arrive at any time
Quiet == \A v \in Reqs : req[v].pc \in {"idle", "done"}

SeqNext ==
  \E u \in Reqs :
    \/ (\E item \in Items("A", ScenarioPages) : Quiet /\ Receive(u, "A", item))
    \/ Delete(u, "A")
    \/ Remove(u)
    \/ Upsert(u)
    \/ Engine(u)

SeqSpec == Init /\ [][SeqNext]_vars

\* ----------------------------------------------------- a store left behind
\* a stored document whose images are files
StoredDoc(n) ==
  [FreshDoc(n, FALSE) EXCEPT
     !.pages = [k \in 1..n |-> [PendingPage EXCEPT !.imageUrl = "path"]]]

\* what an earlier life of the server can leave in DATA_DIR/<id>: nothing, a
\* directory without metadata.json, one whose metadata.json was cut off in
\* the middle of a write, or a stored document
Leftovers ==
  {[dir |-> FALSE, meta |-> NoMeta, imgs |-> {}],
   [dir |-> TRUE, meta |-> NoMeta, imgs |-> {}],
   [dir |-> TRUE, meta |-> CorruptMeta, imgs |-> {1}]}
    \cup {[dir |-> TRUE, meta |-> MetaFile(StoredDoc(n)), imgs |-> 1..n] :
            n \in 0..MaxPages}

StoreInit ==
  /\ \E left \in [Ids -> Leftovers] :
       /\ dir = [id \in Ids |-> left[id].dir]
       /\ meta = [id \in Ids |-> left[id].meta]
       /\ imgs = [id \in Ids |-> left[id].imgs]
       /\ writer = [id \in Ids |->
                      IF left[id].meta.valid THEN "upsert" ELSE "none"]
  /\ md = [id \in Ids |-> [n \in PageNos |-> NoFile]]
  /\ activeProcessing = {}
  /\ req = [u \in Reqs |-> IdleReq]
  /\ faults = 0
  /\ ocrLog = [u \in Reqs |-> << >>]
  /\ lastPP = [id \in Ids |-> -1]
  /\ editor = NoEditor

\* listings and deletes on a store left behind
ListNext ==
  \E u \in Reqs :
    \/ List(u)
    \/ ListAll(u)
    \/ (\E id \in Ids : Delete(u, id))
    \/ Remove(u)

ListSpec == StoreInit /\ [][ListNext]_vars

\* ------------------------------------------- arbitrary bodies and replies
\* the labels of BlockLabelValues and one outside of it
BlockLabelValues == {"TITLE", "MAIN_TEXT", "FOOTNOTE", "HEADER", "FOOTER",
                     "CAPTION", "UNKNOWN"}

\* a block for which the model gave the bounding box: the schema requires
\* text and label only
BoxedBlock == [text |-> "Hello", label |-> "MAIN_TEXT",
               box_2d |-> << 10, 20, 30, 40 >>]

Blocks ==
  {[text |-> "Hello", label |-> l] : l \in BlockLabelValues \cup {"TABLE"}}
    \cup {[label |-> "TITLE"], NullBlock, BoxedBlock}

RECURSIVE ListsUpTo(_)
ListsUpTo(n) ==
  IF n = 0 THEN {<< >>}
  ELSE LET shorter == ListsUpTo(n - 1) IN
         shorter \cup {Append(l, b) : l \in {x \in shorter : Len(x) = n - 1},
                                      b \in Blocks}

BlockLists == ListsUpTo(MaxBlocks)

\* what the external model may answer
Payloads ==
  {NoPayload, NotJson, JsonNull, JsonObject(Undefined)}
    \cup {JsonObject(Array(l)) : l \in BlockLists}

\* the pages a request body may carry
WidePageSet ==
  {[status |-> st, imageUrl |-> url, mime |-> m, hasBlocks |-> v.isArray,
    blocks |-> v.list] :
     st \in {"pending", "completed"}, url \in {"data", "path"},
     m \in {Jpeg, Png, Jp2},
     v \in {Undefined, Array(HelloBlocks), Array(<< NullBlock >>)}}

RECURSIVE PageListsUpTo(_)
PageListsUpTo(n) ==
  IF n = 0 THEN {NoPages}
  ELSE LET shorter == PageListsUpTo(n - 1) IN
         shorter \cup {Append(l, pg) : l \in {x \in shorter : Len(x) = n - 1},
                                       pg \in WidePageSet}

\* the bodies of POST /api/documents that carry an id
WideItems ==
  {[status |-> "pending", type |-> t, pagesArray |-> TRUE, pages |-> ps,
    processedPages |-> 0, startProcessing |-> s] :
     t \in {"file", "text"}, ps \in PageListsUpTo(WidePages), s \in BOOLEAN}
    \cup {[FreshDoc(0, s) EXCEPT !.pagesArray = FALSE] : s \in BOOLEAN}

\* one request with an arbitrary body, and the run it starts with an
\* arbitrary behaviour of the external model
WideNext ==
  \/ (\E item \in WideItems : Receive(1, "A", item))
  \/ Upsert(1)
  \/ Engine(1)
  \/ (\E key \in BOOLEAN, call \in {"returns", "throws"}, payload \in Payloads :
        OcrAny(1, key, call, payload))

WideSpec == Init /\ [][WideNext]_vars

\* ------------------------------------------------ clients that overlap
\* a one-page document whose page the client has had transcribed itself
\* before it submits it
OcredDoc ==
  [FreshDoc(1, FALSE) EXCEPT !.pages[1].status = "completed",
                             !.pages[1].hasBlocks = TRUE,
                             !.pages[1].blocks = BodyBlocks]

\* two clients of document A that do not wait for each other
RaceNext ==
  \E u \in Reqs :
    \/ (\E item \in Items("A", WidePages) \cup {OcredDoc} :
          Receive(u, "A", item))
    \/ Delete(u, "A")
    \/ Remove(u)
    \/ Upsert(u)
    \/ Engine(u)

RaceSpec == Init /\ [][RaceNext]_vars

\* ------------------------------------------ a save that overlaps a run
\* the stored record as the client posts it back to save edited text: the
\* record with savedText set and without the trigger
SavedDoc(d) ==
  [d EXCEPT !.startProcessing = FALSE] @@ ("savedText" :> "my edit")

SaveItems(id) ==
  IF MetaReadable(id) THEN {SavedDoc(meta[DirOf(id)].doc)} ELSE {}

\* two clients of document A, one of which saves edited text
SaveNext ==
  \E u \in Reqs :
    \/ (\E item \in Items("A", WidePages) \cup SaveItems("A") :
          Receive(u, "A", item))
    \/ Delete(u, "A")
    \/ Remove(u)
    \/ Upsert(u)
    \/ Engine(u)

SaveSpec == Init /\ [][SaveNext]_vars

\* ------------------------------------------- documents of different ids
\* the ids a request body may carry
BodyIds == Ids \cup {DotB}

\* no other request carries this id
OwnId(u, id) == \A v \in Reqs \ {u} : req[v].pc = "idle" \/ req[v].id # id

\* clients that each work on a document under an id of their own
PairNext ==
  \E u \in Reqs :
    \/ (\E id \in BodyIds : \E item \in Items(id, WidePages) :
          OwnId(u, id) /\ Receive(u, id, item))
    \/ (\E id \in BodyIds : OwnId(u, id) /\ Delete(u, id))
    \/ Remove(u)
    \/ Upsert(u)
    \/ Engine(u)

PairSpec == Init /\ [][PairNext]_vars

\* ------------------------------------------------------------- EditorView
\* selectedLabels.includes(label)
Includes(labels, label) == \E k \in 1..Len(labels) : labels[k] = label

\* the texts of the blocks of one block list whose label is selected
RECURSIVE TextsOfBlocks(_, _)
TextsOfBlocks(blocks, labels) ==
  IF blocks = << >> THEN << >>
  ELSE (IF Includes(labels, LabelOf(Head(blocks)))
          THEN << TextOf(Head(blocks)) >> ELSE << >>)
         \o TextsOfBlocks(Tail(blocks), labels)

\* the same over the pages in index order; a page without blocks adds none
RECURSIVE TextsOfPages(_, _)
TextsOfPages(pages, labels) ==
  IF pages = << >> THEN << >>
  ELSE TextsOfBlocks(Head(pages).blocks, labels)
         \o TextsOfPages(Tail(pages), labels)

\* join('\n\n')
RECURSIVE JoinParagraphs(_)
JoinParagraphs(texts) ==
  IF texts = << >> THEN ""
  ELSE IF Len(texts) = 1 THEN texts[1]
  ELSE texts[1] \o "\n\n" \o JoinParagraphs(Tail(texts))

reconstructCleanText(pages, selectedLabels) ==
  JoinParagraphs(TextsOfPages(pages, selectedLabels))

\* the checkboxes of the editor
availableLabels == {"TITLE", "MAIN_TEXT", "HEADER", "FOOTER", "FOOTNOTE",
                    "CAPTION"}

\* a page with a title and a paragraph
TitledBlocks == << [text |-> "Hello", label |-> "TITLE"],
                  [text |-> "Body", label |-> "MAIN_TEXT"] >>

\* the pages of a processed document: completed with blocks, or failed
EditorPageSet ==
  {[PendingPage EXCEPT !.status = "completed", !.imageUrl = "path",
                       !.hasBlocks = TRUE, !.blocks = b] :
     b \in {TitledBlocks, BodyBlocks}}
    \cup {[PendingPage EXCEPT !.status = "error", !.imageUrl = "path"]}

RECURSIVE EditorPageLists(_)
EditorPageLists(n) ==
  IF n = 0 THEN {NoPages}
  ELSE LET shorter == EditorPageLists(n - 1) IN
         shorter \cup {Append(l, pg) : l \in {x \in shorter : Len(x) = n - 1},
                                       pg \in EditorPageSet}

\* the documents the application opens in the editor
EditorDocs ==
  {[id |-> "A", pages |-> ps, hasSavedText |-> h,
    savedText |-> IF h THEN "saved text" ELSE ""] :
     ps \in EditorPageLists(MaxPages), h \in BOOLEAN}

\* what the user types into the text area
TypedTexts == {"my edit", ""}

\* a render of the component with new state; the server is not involved
SetEditor(e) ==
  /\ editor' = e
  /\ UNCHANGED << fsVars, activeProcessing, req, faults, ocrLog, writer,
                  lastPP >>

\* the component is created for doc and its effect has run
Mount(doc) ==
  /\ ~editor.mounted
  /\ SetEditor([editor EXCEPT
        !.mounted = TRUE, !.doc = doc,
        !.cleanText = IF doc.hasSavedText /\ doc.savedText # ""
                        THEN doc.savedText
                      ELSE reconstructCleanText(doc.pages, editor.selectedLabels)])

\* a handler that saves what is typed at once
handleTextChangeSaves(newText) ==
  /\ editor.mounted
  /\ Len(editor.saves) < MaxSaves
  /\ SetEditor([editor EXCEPT !.cleanText = newText, !.isSaved = TRUE,
        !.saves = Append(@, [docId |-> editor.doc.id, newText |-> newText])])

handleTextChange(newText) ==
  /\ editor.mounted
  /\ SetEditor([editor EXCEPT !.cleanText = newText, !.isSaved = FALSE])

\* prev.includes(label) ? prev.filter(l => l !== label) : [...prev, label]
NewLabels(prev, label) ==
  IF Includes(prev, label) THEN SelectSeq(prev, LAMBDA l : l # label)
  ELSE Append(prev, label)

\* a handler that reconstructs with the labels of before the toggle
toggleLabelStale(label) ==
  /\ editor.mounted
  /\ editor.toggles < MaxToggles
  /\ SetEditor([editor EXCEPT
        !.selectedLabels = NewLabels(editor.selectedLabels, label),
        !.cleanText = reconstructCleanText(editor.doc.pages,
                                           editor.selectedLabels),
        !.isSaved = FALSE, !.toggles = @ + 1])

toggleLabel(label) ==
  /\ editor.mounted
  /\ editor.toggles < MaxToggles
  /\ SetEditor([editor EXCEPT
        !.selectedLabels = NewLabels(editor.selectedLabels, label),
        !.cleanText = reconstructCleanText(editor.doc.pages,
                          NewLabels(editor.selectedLabels, label)),
        !.isSaved = FALSE, !.toggles = @ + 1])

handleSave ==
  /\ editor.mounted
  /\ Len(editor.saves) < MaxSaves
  /\ SetEditor([editor EXCEPT !.isSaved = TRUE,
        !.saves = Append(@, [docId |-> editor.doc.id,
                             newText |-> editor.cleanText])])

\* one user working in the editor
EditNext ==
  \/ (\E doc \in EditorDocs : Mount(doc))
  \/ (\E newText \in TypedTexts : handleTextChange(newText))
  \/ (\E label \in availableLabels : toggleLabel(label))
  \/ handleSave

EditSpec == Init /\ [][EditNext]_vars

\* ------------------------------------------------------------------ claims
\* the run of request u is past the guard and has not returned
Engaged(u) == req[u].pc \in EnginePcs

\* the runs of document id that are past the guard
RunsOf(id) == {u \in Reqs : Engaged(u) /\ req[u].id = id}

AtMostOneRun == \A id \in Ids : Cardinality(RunsOf(id)) <= 1

\* the call of the engine by request u finds the id in the set
NoopCall(u) ==
  /\ req[u].pc = "u_meta"
  /\ req[u].doc.startProcessing
  /\ req[u].id \in activeProcessing
  /\ req'[u].resp = "ok"

\* the step changes nothing but the metadata the upsert has just written
NoopIsFrame ==
  \A u \in Reqs :
    /\ NoopCall(u) =>
         /\ req'[u].pc = "done"
         /\ meta' = [meta EXCEPT ![req[u].id] = MetaFile(req[u].doc)]
         /\ UNCHANGED << dir, imgs, md, activeProcessing, ocrLog >>
         /\ \A v \in Reqs \ {u} : req'[v] = req[v]
    /\ req[u].run = "noop" => req'[u] = req[u]

\* C1: for every interleaving of calls of processDocumentBackground with the
\* same id at most one run is past the guard at any time, and a call that
\* finds the id in activeProcessing returns at once: it changes no file, does
\* not remove the id from the set, and does nothing afterwards.
C1_GuardExclusive == []AtMostOneRun /\ [][NoopIsFrame]_vars

\* a second call returned as a no-op while the first run is still working
C1_Witness ==
  \E u, v \in Reqs :
    /\ req[u].run = "noop" /\ req[v].id = req[u].id
    /\ req[v].pc \in {"ocr", "wmeta"}
    /\ req[u].id \in activeProcessing

\* the ids of the runs that are past the guard
HeldIds == {req[u].id : u \in {v \in Reqs : Engaged(v)}}

GuardMatchesRuns == activeProcessing = HeldIds

\* C2: a run holds its id in activeProcessing from the guard on (before the
\* startup delay and before any file access) and removes it on every exit
\* path; when every awaited operation returns or throws, every run that added
\* its id returns, and the id is then no longer in the set.
C2_GuardReleased ==
  /\ []GuardMatchesRuns
  /\ \A u \in Reqs : Engaged(u) ~> (req[u].pc = "done")

\* a run left on the fatal path without having written the error status,
\* and the set is empty again
C2_Witness ==
  \E u \in Reqs :
    /\ req[u].pc = "done" /\ req[u].run = "fatal"
    /\ MetaExists(req[u].id) /\ meta[req[u].id].doc.status # "error"
    /\ activeProcessing = {}

\* the statuses of the pages of d, in page order
Statuses(d) == [k \in 1..Len(d.pages) |-> d.pages[k].status]

\* metadata.json of id exists after the step
StoredAfter(id) == dir'[id] /\ meta'[id].exists

\* the partial-success rule on a stored document
StatusFollowsPages(d) ==
  /\ d.status \in {"error", "ready"}
  /\ d.status = "error" <=> \A k \in 1..Len(d.pages) : d.pages[k].status = "error"

\* the run of u returns in this step
Ends(u) == req[u].pc # "done" /\ req'[u].pc = "done"

\* the final status write of the run of u succeeds in this step
Finishes(u) == req[u].pc = "wfinal" /\ req'[u].run = "finished"

\* C3 as stated: after a run that reached the end of its page loop the
\* persisted status is error iff every page is error, and ready otherwise.
C3_Original ==
  [][\A u \in Reqs :
       (Ends(u) /\ req'[u].atEnd /\ StoredAfter(req[u].id))
         => StatusFollowsPages(meta'[req[u].id].doc)]_vars

\* C3 (amended): after a run whose final status write succeeds, the persisted
\* status is error iff every page is error, and ready otherwise.
C3_FinalStatus ==
  [][\A u \in Reqs :
       Finishes(u) =>
         /\ StoredAfter(req[u].id)
         /\ StatusFollowsPages(meta'[req[u].id].doc)]_vars

\* a 2-page document whose OCR failed on both pages ended in error
C3_Witness ==
  \E u \in Reqs :
    /\ req[u].run = "finished" /\ ocrLog[u] = << 0, 1 >>
    /\ MetaExists(req[u].id) /\ writer[req[u].id] = "engine"
    /\ Statuses(meta[req[u].id].doc) = << "error", "error" >>
    /\ meta[req[u].id].doc.status = "error"

\* C4 as stated: a page-level failure never aborts the run.
C4_Original == \A u \in Reqs : req[u].failed # {} => req[u].run # "fatal"

\* the run of u enters the outer catch block in this step
EntersFatal(u) == req[u].run # "fatal" /\ req'[u].run = "fatal"

\* the write of the per-page catch block succeeds in this step
ErrorWritten(u) ==
  req[u].pc = "werr" /\ req'[u] # req[u] /\ req'[u].run # "fatal"

PageFailureLocal(u) ==
  LET id == req[u].id
      i == req[u].i
      n == Len(req[u].doc.pages)
  IN /\ EntersFatal(u) => req[u].pc \in {"wstatus", "werr", "wfinal"}
     /\ ErrorWritten(u) =>
          /\ StoredAfter(id)
          /\ meta'[id].doc.pages[i + 1].status = "error"
          /\ req'[u].pc \in {"rimg", "werr", "wfinal"}
          /\ req'[u].i > i
          /\ \A j \in (i + 2)..req'[u].i :
               req'[u].doc.pages[j].status = "completed"
          /\ req'[u].pc = "wfinal" <=> req'[u].i = n
     /\ Finishes(u) =>
          /\ \A k \in 1..n :
               meta'[id].doc.pages[k].status =
                 IF (k - 1) \in req[u].failed THEN "error" ELSE "completed"
          /\ (/\ Statuses(req[u].read) = << "pending", "pending", "pending" >>
              /\ req[u].failed = {1})
               => /\ Statuses(meta'[id].doc) =
                       << "completed", "error", "completed" >>
                  /\ meta'[id].doc.processedPages = 3
                  /\ meta'[id].doc.status = "ready"

\* C4 (amended): a page-level failure for page i does not by itself abort
\* the run: the run aborts only when a metadata write outside the per-page
\* try block throws; when the write that records page i as error succeeds,
\* the run goes on with the next page that is not completed, and a run that
\* finishes has stored error for exactly the pages that failed in it; a
\* 3-page document whose page 2 alone fails ends [completed, error,
\* completed], processedPages 3, ready.
C4_PageFailureLocal == [][\A u \in Reqs : PageFailureLocal(u)]_vars

\* the 3-page scenario: OCR was called for all three pages, page 2 failed
C4_Witness ==
  \E u \in Reqs :
    /\ req[u].run = "finished" /\ ocrLog[u] = << 0, 1, 2 >>
    /\ req[u].failed = {1}
    /\ MetaExists(req[u].id)
    /\ Statuses(meta[req[u].id].doc) = << "completed", "error", "completed" >>
    /\ meta[req[u].id].doc.processedPages = 3
    /\ meta[req[u].id].doc.status = "ready"

\* C5: after a completed background run (one whose final status write is
\* done) the persisted processedPages equals pages.length, for first runs and
\* for resume runs that skip completed pages.
C5_AllPagesCounted ==
  [][\A u \in Reqs :
       Finishes(u) =>
         meta'[req[u].id].doc.processedPages = Len(meta'[req[u].id].doc.pages)]_vars

\* the engine wrote metadata.json of id last
EngineWrote(id) == MetaExists(id) /\ writer[id] \in {"engine", "fatal"}

\* C6: over the snapshots of one document that the engine writes, in one run
\* or in successive runs, processedPages never decreases and never exceeds
\* pages.length.
C6_ProcessedMonotone ==
  /\ [](\A id \in Ids : EngineWrote(id) =>
          meta[id].doc.processedPages <= Len(meta[id].doc.pages))
  /\ [][\A id \in Ids :
          (lastPP[id] >= 0 /\ lastPP'[id] >= 0) => lastPP'[id] >= lastPP[id]]_vars

NoPagePending(d) == \A k \in 1..Len(d.pages) : d.pages[k].status # "pending"

Terminal(d) == d.status \in {"ready", "error"}

\* C7 as stated: every snapshot the engine writes, on the normal and on the
\* fatal path, has no pending page when its status is ready or error.
C7_Original ==
  \A id \in Ids : (EngineWrote(id) /\ Terminal(meta[id].doc))
                    => NoPagePending(meta[id].doc)

\* C7 (amended): every snapshot the engine writes on its normal path has no
\* pending page when its status is ready or error.
C7_NormalPathVisitsAll ==
  \A id \in Ids :
    (MetaExists(id) /\ writer[id] = "engine" /\ Terminal(meta[id].doc))
      => NoPagePending(meta[id].doc)

\* a 2-page document stored as ready by the final write, one page failed
C7_Witness ==
  \E id \in Ids :
    /\ MetaExists(id) /\ writer[id] = "engine"
    /\ meta[id].doc.status = "ready"
    /\ Statuses(meta[id].doc) = << "error", "completed" >>

\* C8 as stated: whenever the engine stores status error, every page of the
\* stored document is error.
C8_Original ==
  \A id \in Ids : (EngineWrote(id) /\ meta[id].doc.status = "error")
                    => \A k \in 1..Len(meta[id].doc.pages) :
                         meta[id].doc.pages[k].status = "error"

\* C8 (amended): whenever the engine stores status error on its normal path,
\* every page of the stored document is error, so a document with a completed
\* page is not given status error by the final status update.
C8_NormalPathError ==
  \A id \in Ids :
    (MetaExists(id) /\ writer[id] = "engine")
      => /\ meta[id].doc.status = "error"
              => \A k \in 1..Len(meta[id].doc.pages) :
                   meta[id].doc.pages[k].status = "error"
         /\ (\E k \in 1..Len(meta[id].doc.pages) :
               meta[id].doc.pages[k].status = "completed")
              => meta[id].doc.status # "error"

\* the final write stored error for a 1-page document whose page failed
C8_Witness ==
  \E id \in Ids :
    /\ MetaExists(id) /\ writer[id] = "engine"
    /\ meta[id].doc.status = "error"
    /\ Statuses(meta[id].doc) = << "error" >>

\* the page numbers that were completed in the metadata the run read
CompletedAtRead(u) ==
  {k \in 1..Len(req[u].read.pages) : req[u].read.pages[k].status = "completed"}

InLoop(u) == req[u].pc \in {"rimg", "ocr", "wmd", "wmeta", "werr", "wfinal"}

ResumeSkips(u) ==
  \A k \in CompletedAtRead(u) :
    /\ \A j \in 1..Len(ocrLog[u]) : ocrLog[u][j] # k - 1
    /\ (InLoop(u) /\ req[u].pc # "wfinal") => req[u].i # k - 1
    /\ (InLoop(u) \/ req[u].run = "finished")
         => req[u].doc.pages[k] = req[u].read.pages[k]

ResumeFrame(u) ==
  (Engaged(u) /\ req'[u] # req[u]) =>
    \A k \in CompletedAtRead(u) :
      /\ md'[req[u].id][k] = md[req[u].id][k]
      /\ (meta' # meta /\ writer'[req[u].id] = "engine")
           => meta'[req[u].id].doc.pages[k] = req[u].read.pages[k]

\* C9: a run never hands a page that was completed when it read the
\* metadata to the OCR adapter, never works on it (so never reads its image),
\* keeps its status and blocks in every snapshot it writes on the normal
\* path, and never writes its markdown file.
C9_ResumeSkipsCompleted ==
  /\ [](\A u \in Reqs : ResumeSkips(u))
  /\ [][\A u \in Reqs : ResumeFrame(u)]_vars

\* a resume run that skipped a completed page and processed another one
C9_Witness ==
  \E u \in Reqs :
    /\ req[u].run = "finished"
    /\ CompletedAtRead(u) # {}
    /\ ocrLog[u] # << >>

Increasing(log) == \A j \in 1..(Len(log) - 1) : log[j] < log[j + 1]

\* the run of u turns to another page in this step
Advances(u) ==
  /\ Engaged(u) /\ req[u].pc \notin {"delay", "rmeta", "backoff", "wstatus"}
  /\ req'[u].i # req[u].i

Sequential(u) ==
  /\ Advances(u) =>
       /\ req[u].pc \in {"wmeta", "werr"}
       /\ req'[u].i > req[u].i
       /\ req[u].doc.pages[req[u].i + 1].status \in {"completed", "error"}
       /\ StoredAfter(req[u].id)
       /\ meta'[req[u].id].doc = req[u].doc
       /\ writer'[req[u].id] = "engine"
  /\ (req[u].pc = "rimg" /\ req'[u].pc = "ocr") => req'[u].i = req[u].i
  /\ req[u].run = "fatal" => req'[u].pc \in {"fread", "fwrite", "done"}

\* C10: in one run the OCR adapter is called at most once per page and in
\* increasing page order, and the run turns to a later page only in the step
\* in which the metadata write that records the current page as completed or
\* error succeeds; after a failed write of the catch block no page is started.
C10_PagesInOrder ==
  /\ [](\A u \in Reqs : Increasing(ocrLog[u]))
  /\ [][\A u \in Reqs : Sequential(u)]_vars

\* the OCR call for the second page, after the first page was stored
C10_Witness ==
  \E u \in Reqs :
    /\ req[u].pc = "ocr" /\ req[u].i = 1 /\ ocrLog[u] = << 0, 1 >>
    /\ MetaExists(req[u].id)
    /\ meta[req[u].id].doc.pages[1].status \in {"completed", "error"}

StartupPcs == {"delay", "rmeta", "backoff"}

\* a step of the run of u during its startup
StartupStep(u) == req[u].pc \in StartupPcs /\ req'[u] # req[u]

AbortsClean(u) ==
  LET id == req[u].id IN
    StartupStep(u) =>
      /\ UNCHANGED << fsVars, ocrLog >>
      /\ ocrLog[u] = << >>
      /\ req'[u].pc \in StartupPcs \cup {"done"} =>
           /\ req'[u].read = NoDoc
           /\ req'[u].doc = req[u].doc
      /\ req'[u].pc = "done" =>
           /\ req'[u].run = "aborted"
           /\ req[u].pc \in {"delay", "backoff"}
           /\ id \notin activeProcessing'
           /\ ~MetaExists(id) \/ req'[u].attempt = MaxAttempts
      /\ req'[u].pc \notin StartupPcs \cup {"done"} =>
           /\ req[u].pc = "rmeta"
           /\ MetaReadable(id)
           /\ req'[u].read = meta[id].doc

\* C11: a run whose startup attempts all fail to read and parse
\* metadata.json (the file is absent, or each of the five reads throws)
\* performs no write: no step of its startup changes a file of the store,
\* it hands no page to the OCR adapter, it returns as aborted with the id
\* removed from activeProcessing, and only a successful read lets a run leave
\* its startup for the status write or the page loop.
C11_AbortWithoutWrite ==
  /\ [][\A u \in Reqs : AbortsClean(u)]_vars
  /\ [](\A u \in Reqs : req[u].run = "aborted" =>
          /\ req[u].pc = "done"
          /\ ocrLog[u] = << >>
          /\ req[u].read = NoDoc)

\* a run aborted after five reads of an existing metadata.json failed
C11_Witness ==
  \E u \in Reqs :
    /\ req[u].run = "aborted" /\ req[u].attempt = MaxAttempts
    /\ MetaExists(req[u].id)
    /\ req[u].id \notin activeProcessing

\* a step of the run of u inside the outer catch block
FatalStep(u) == req[u].run = "fatal" /\ req'[u] # req[u]

FatalPath(u) ==
  LET id == req[u].id IN
    /\ EntersFatal(u) =>
         /\ req[u].pc \in {"rmeta", "wstatus", "werr", "wfinal"}
         /\ req[u].pc = "rmeta" => ~req'[u].doc.pagesArray
         /\ UNCHANGED << dir, imgs, md, ocrLog >>
         /\ meta' # meta => (req[u].pc = "wstatus" /\ ~req[u].doc.pagesArray)
         /\ req'[u].pc = IF MetaExists(id) \/ StoredAfter(id)
                            THEN "fread" ELSE "done"
    /\ FatalStep(u) =>
         /\ req[u].pc \in {"fread", "fwrite"}
         /\ UNCHANGED << dir, imgs, md, ocrLog >>
         /\ req[u].pc = "fread" =>
              /\ UNCHANGED meta
              /\ \/ req'[u].pc = "done"
                 \/ /\ req'[u].pc = "fwrite"
                    /\ MetaReadable(id)
                    /\ req'[u].doc = [meta[id].doc EXCEPT !.status = "error"]
         /\ req[u].pc = "fwrite" =>
              /\ req'[u].pc = "done"
              /\ \/ UNCHANGED meta
                 \/ meta' = [meta EXCEPT ![id] = MetaFile(req[u].doc)]
    /\ (req'[u].run = "fatal" /\ Ends(u)) =>
         /\ id \notin activeProcessing'
         /\ req'[u].resp = "ok"

\* C12: a run enters its outer catch block only when the status-to-processing
\* write, the metadata write of the per-page catch or the final write throws,
\* or when pages is not an array; from then on it hands no page to the OCR
\* adapter and writes no page file; it reads metadata.json as it is on disk
\* at that moment and writes it back with only the status changed to error;
\* when that read or write throws nothing more is written; on each of these
\* paths the run returns, the upsert's answer stays a success and the id is
\* removed from activeProcessing.
C12_FatalPath == [][\A u \in Reqs : FatalPath(u)]_vars

\* a run over pages that is not an array stored error through the fatal path
C12_Witness ==
  \E u \in Reqs :
    /\ req[u].pc = "done" /\ req[u].run = "fatal"
    /\ ~req[u].doc.pagesArray
    /\ MetaExists(req[u].id) /\ writer[req[u].id] = "fatal"
    /\ meta[req[u].id].doc.status = "error"
    /\ req[u].id \notin activeProcessing

\* C13: after an upsert of a document of type file that answered with
\* success, the metadata.json read back holds no page whose imageUrl is
\* still an embedded data: URI, whatever the MIME type of the submitted image.
C13_NoEmbeddedImageStored ==
  \A id \in Ids :
    (MetaReadable(id) /\ meta[id].doc.type = "file") =>
      \A k \in 1..Len(meta[id].doc.pages) :
        meta[id].doc.pages[k].imageUrl # "data"

\* request u is an upsert
IsUpsert(u) == req[u].pc # "idle" /\ req[u].run \notin {"delete", "list"}

\* the upsert of u answers in this step
Answers(u) == req[u].resp = "none" /\ req'[u].resp # "none"

FireAndForget(u) ==
  LET id == req[u].id IN
    /\ (~Engaged(u) /\ req'[u].pc \in EnginePcs) =>
         /\ req[u].pc = "u_meta"
         /\ req[u].doc.startProcessing
         /\ meta'[id] = MetaFile(req[u].doc)
         /\ req'[u].pc = "delay"
    /\ (req[u].pc = "u_meta" /\ req'[u] # req[u]
          /\ ~req[u].doc.startProcessing) =>
         /\ req'[u].pc = "done"
         /\ req'[u].run = "none"
         /\ activeProcessing' = activeProcessing
    /\ (IsUpsert(u) /\ Answers(u) /\ req'[u].resp = "ok") =>
         /\ req[u].pc = "u_meta"
         /\ meta'[id] = MetaFile(req[u].doc)
         /\ req'[u].doc = req[u].doc
         /\ req'[u].pc \in {"delay", "done"}
    /\ (IsUpsert(u) /\ Answers(u) /\ req'[u].resp = "error") =>
         /\ req'[u].pc = "done" /\ req'[u].run = "none"
         /\ UNCHANGED << fsVars, activeProcessing >>
    /\ req[u].resp # "none" => req'[u].resp = req[u].resp

\* C14: a run is started only by the step in which the write of
\* metadata.json of an item carrying startProcessing succeeds; the same step
\* answers with the item as stored, before the run has done anything beyond
\* its guard; an item without startProcessing starts no run; and whatever
\* the run does afterwards (no-op, abort, fatal path, normal end) the answer
\* of the upsert is not changed.
C14_FireAndForget == [][\A u \in Reqs : FireAndForget(u)]_vars

\* an upsert answered with success and the run it started ended on the
\* fatal path
C14_Witness ==
  \E u \in Reqs :
    /\ req[u].pc = "done" /\ req[u].run = "fatal" /\ req[u].resp = "ok"

UpsertPcs == {"u_mkdir", "u_img", "u_md", "u_meta"}

\* a step of the upsert of u
UpsertStep(u) == req[u].pc \in UpsertPcs /\ req'[u] # req[u]

\* the page loop of the item of u is through: no page is left whose image
\* is to be written, and the loop index is at the end
PagesThrough(u) ==
  HasPageFiles(req[u].doc) =>
    /\ req[u].i = Len(req[u].doc.pages)
    /\ \A k \in 1..Len(req[u].doc.pages) : ~IsEmbedded(req[u].doc.pages[k])

MetadataLast(u) ==
  LET id == req[u].id
      i == req[u].i
  IN UpsertStep(u) =>
       /\ req[u].pc # "u_meta" => UNCHANGED meta
       /\ req[u].pc = "u_meta" =>
            /\ UNCHANGED << dir, imgs, md >>
            /\ req'[u].pc \notin UpsertPcs
       /\ req'[u].pc \in UpsertPcs => req'[u].i >= i
       /\ imgs' # imgs =>
            /\ req[u].pc = "u_img" /\ imgs'[id] = imgs[id] \cup {i + 1}
            /\ req'[u].doc.pages[i + 1].imageUrl = "path"
       /\ md' # md =>
            /\ req[u].pc = "u_md"
            /\ md'[id][i + 1] = MarkdownFile(BlocksOf(req[u].doc.pages[i + 1]))
       /\ req'[u].resp = "error" =>
            /\ UNCHANGED << meta, activeProcessing >>
            /\ req'[u].pc = "done" /\ req'[u].run = "none"

\* C15: within one upsert the only step that writes metadata.json is its
\* last file operation: it comes when the page loop is through, after every
\* image file and markdown file of the request was written, in page order;
\* when mkdir or the write of an image, a markdown file or the metadata
\* throws, metadata.json is left as it was, no run is started and the
\* call answers with an error.
C15_MetadataLast ==
  /\ [](\A u \in Reqs : req[u].pc = "u_meta" => PagesThrough(u))
  /\ [][\A u \in Reqs : MetadataLast(u)]_vars

\* an upsert of a new 2-page document whose second image write threw: the
\* first image is on disk, metadata.json is not
C15_Witness ==
  \E u \in Reqs :
    /\ req[u].pc = "done" /\ req[u].resp = "error" /\ req[u].i = 1
    /\ dir[req[u].id] /\ imgs[req[u].id] = {1}
    /\ ~MetaExists(req[u].id)
    /\ \A v \in Reqs \ {u} : req[v].pc = "idle"

\* the delete request u answers in this step
DeleteAnswers(u) ==
  /\ req'[u].run = "delete" /\ req'[u].pc = "done"
  /\ req[u].pc # "done"

\* the files of every document but id are left alone
OthersKept(id) ==
  \A o \in Ids \ {id} :
    /\ dir'[o] = dir[o] /\ meta'[o] = meta[o]
    /\ imgs'[o] = imgs[o] /\ md'[o] = md[o]

Gone(id) ==
  /\ ~dir'[id] /\ meta'[id] = NoMeta /\ imgs'[id] = {}
  /\ \A n \in PageNos : md'[id][n] = NoFile

\* C16 as stated: after a delete(id) the directory of id is gone.
C16_Original ==
  [][\A u \in Reqs : DeleteAnswers(u) => ~dir'[req'[u].id]]_vars

DeleteRemoves(u) ==
  LET id == req'[u].id IN
    DeleteAnswers(u) =>
      /\ OthersKept(id)
      /\ UNCHANGED activeProcessing
      /\ req'[u].resp = "ok" => Gone(id)
      /\ req[u].pc = "idle" =>
           /\ ~dir[id] /\ req'[u].resp = "ok" /\ UNCHANGED fsVars
      /\ req'[u].resp = "error" => (req[u].pc = "d_rm" /\ UNCHANGED fsVars)

\* the listing of u reads the names of the directories in this step
ReadsNames(u) == req[u].pc = "l_dir" /\ req'[u].pc \in {"l_read", "done"}

ListedIds(r) == {r.items[k].id : k \in 1..Len(r.items)}
EntryIds(r) == {r.entries[k] : k \in 1..Len(r.entries)}

\* C16 (amended): a delete(id) that answers with success has removed the
\* whole directory of id, and a listing that reads the directory names after
\* it does not contain id; when rm throws the call answers with an error and
\* the directory stays; delete(id) of an id without directory answers with
\* success at once and changes nothing, so a second delete gives the result
\* of the first; no delete touches the files of another document.
C16_DeleteRemoves ==
  /\ [][\A u \in Reqs :
         /\ DeleteRemoves(u)
         /\ (ReadsNames(u) /\ req'[u].resp # "error") =>
              EntryIds(req'[u]) = {id \in Ids : dir[id]}]_vars
  /\ [](\A u \in Reqs : ListedIds(req[u]) \subseteq EntryIds(req[u]))

\* document A was listed, then deleted with success; document B is still
\* stored
C16_Witness ==
  \E u, v \in Reqs :
    /\ req[u].run = "list" /\ req[u].pc = "done"
    /\ "A" \in ListedIds(req[u])
    /\ req[v].run = "delete" /\ req[v].pc = "done" /\ req[v].id = "A"
    /\ req[v].resp = "ok"
    /\ ~dir["A"] /\ MetaReadable("B")

\* the listing of u is through with one directory in this step
ListStep(u) == req[u].pc = "l_read" /\ req'[u] # req[u]

ListsReadable(u) ==
  LET id == req[u].entries[req[u].i + 1] IN
    /\ ListStep(u) =>
         /\ UNCHANGED fsVars
         /\ req'[u].i = req[u].i + 1 /\ req'[u].entries = req[u].entries
         /\ req'[u].resp # "error"
         /\ req'[u].pc = IF req'[u].i < Len(req[u].entries)
                            THEN "l_read" ELSE "done"
         /\ \/ /\ MetaReadable(id)
               /\ req'[u].items =
                    Append(req[u].items, [id |-> id, doc |-> meta[id].doc])
            \/ /\ req'[u].items = req[u].items
               /\ MetaReadable(id) => faults' = faults + 1
    /\ (req[u].run = "list" /\ req'[u].resp = "error") =>
         (req[u].resp = "error" \/ req[u].pc = "l_dir")

\* no other request is or was at work, and no read has thrown
Undisturbed(u) == faults = 0 /\ \A v \in Reqs \ {u} : req[v].pc = "idle"

\* C17: listAll answers with the parsed metadata of the directories it could
\* read, in the order of the directory names: a directory whose
\* metadata.json is missing or is not JSON is skipped, the listing
\* goes on with the next directory and still answers with success; when no
\* read throws and nothing else changes the store, the answer holds exactly the
\* documents whose metadata.json exists and parses.
C17_ListSkipsInvalid ==
  /\ [][\A u \in Reqs : ListsReadable(u)]_vars
  /\ [](\A u \in Reqs :
          (req[u].run = "list" /\ req[u].pc = "done" /\ req[u].resp = "ok"
            /\ Undisturbed(u)) =>
            /\ ListedIds(req[u]) = {id \in Ids : MetaReadable(id)}
            /\ \A k \in 1..Len(req[u].items) :
                 req[u].items[k].doc = meta[req[u].items[k].id].doc)

\* directory A holds a metadata.json that is cut off, B a stored document:
\* the listing skipped A and answered with B
C17_Witness ==
  \E u \in Reqs :
    /\ req[u].run = "list" /\ req[u].pc = "done" /\ req[u].resp = "ok"
    /\ req[u].entries = << "A", "B" >>
    /\ meta["A"] = CorruptMeta
    /\ ListedIds(req[u]) = {"B"}
    /\ Len(meta["B"].doc.pages) = 1

\* what the claimed mapping puts before and after the text of a block
ClaimedPrefix ==
  [l \in BlockLabelValues |->
     CASE l = "TITLE" -> "# "
       [] l \in {"HEADER", "FOOTER"} -> "_"
       [] l = "CAPTION" -> "*"
       [] l = "FOOTNOTE" -> "^ "
       [] OTHER -> ""]

ClaimedSuffix ==
  [l \in BlockLabelValues |->
     CASE l \in {"HEADER", "FOOTER"} -> "_"
       [] l = "CAPTION" -> "*"
       [] OTHER -> ""]

RECURSIVE ClaimedMarkdown(_)
ClaimedMarkdown(list) ==
  IF list = << >> THEN ""
  ELSE ClaimedMarkdown(SubSeq(list, 1, Len(list) - 1))
         \o ClaimedPrefix[list[Len(list)].label] \o list[Len(list)].text
         \o ClaimedSuffix[list[Len(list)].label] \o "\n\n"

\* a list of objects that carry a text and a label of the enumeration
WellFormed(list) ==
  \A k \in 1..Len(list) :
    /\ {"text", "label"} \subseteq DOMAIN list[k]
    /\ list[k].label \in BlockLabelValues

\* the page the run of u is working on
CurrentPage(u) == req[u].doc.pages[req[u].i + 1]

\* C18: for a list of blocks that carry a text and a label of the
\* enumeration, the markdown file the engine writes for the page is the
\* concatenation, in list order, of one piece per block: '# text' for TITLE,
\* '_text_' for HEADER and FOOTER, '*text*' for CAPTION, '^ text' for
\* FOOTNOTE, the plain text for MAIN_TEXT and UNKNOWN, each followed by
\* '\n\n'; for the single block {text: 'Hello', label: 'TITLE'} the file
\* holds '# Hello\n\n'.
C18_MarkdownMapping ==
  \A u \in Reqs :
    (req[u].pc = "wmeta" /\ CurrentPage(u).hasBlocks
      /\ WellFormed(CurrentPage(u).blocks)) =>
      /\ md[req[u].id][req[u].i + 1].exists
      /\ md[req[u].id][req[u].i + 1].text = ClaimedMarkdown(CurrentPage(u).blocks)
      /\ CurrentPage(u).blocks = HelloBlocks =>
           md[req[u].id][req[u].i + 1].text = "# Hello\n\n"

\* the file written for a page whose blocks are a footnote and a caption
C18_Witness ==
  \E u \in Reqs :
    /\ req[u].pc = "wmeta"
    /\ CurrentPage(u).blocks = << [text |-> "Hello", label |-> "FOOTNOTE"],
                                  [text |-> "Hello", label |-> "CAPTION"] >>
    /\ md[req[u].id][req[u].i + 1].text = "^ Hello\n\n*Hello*\n\n"

\* C19: toMarkdown returns a string for every value the upsert handler and
\* the engine hand to it (an empty list, a block without text, a label
\* outside the enumeration, a value that is not a list, any list a request
\* body or the external model can hold): no call of it throws.
C19_MarkdownTotal == \A u \in Reqs : ~req[u].mdThrew

\* C20: the engine marks a page completed only when the OCR adapter returned
\* a block list: the adapter fails with an error when no credential is
\* configured, when the call throws, and when the payload is empty, is not
\* JSON or is JSON without the shape {blocks: [...]}; so the page a run
\* is about to store as completed carries a block list.
C20_CompletedHasBlocks ==
  \A u \in Reqs :
    req[u].pc \in {"wmd", "wmeta"} =>
      /\ CurrentPage(u).status = "completed"
      /\ CurrentPage(u).hasBlocks

\* C21: every block of a list the OCR adapter returned carries a box_2d (a
\* block for which the model omitted it gets [0,0,0,0]): each block of the
\* list the engine has attached to the page it is about to store has one.
C21_BlocksCarryBox ==
  \A u \in Reqs :
    (req[u].pc \in {"wmd", "wmeta"} /\ CurrentPage(u).hasBlocks) =>
      \A k \in 1..Len(CurrentPage(u).blocks) :
        "box_2d" \in DOMAIN CurrentPage(u).blocks[k]

\* every block of the pages, page after page
RECURSIVE AllBlocks(_)
AllBlocks(pages) ==
  IF pages = << >> THEN << >>
  ELSE AllBlocks(SubSeq(pages, 1, Len(pages) - 1)) \o pages[Len(pages)].blocks

\* the texts joined by blank lines, built from the last one
RECURSIVE ClaimedJoin(_)
ClaimedJoin(blocks) ==
  IF blocks = << >> THEN ""
  ELSE IF Len(blocks) = 1 THEN blocks[1].text
  ELSE ClaimedJoin(SubSeq(blocks, 1, Len(blocks) - 1))
         \o "\n\n" \o blocks[Len(blocks)].text

\* the text of exactly the blocks whose label is among labels
ClaimedCleanText(pages, labels) ==
  ClaimedJoin(SelectSeq(AllBlocks(pages),
                        LAMBDA b : b.label \in {labels[k] : k \in 1..Len(labels)}))

\* the transcript is regenerated in this step: the editor is created for a
\* document without saved text, or a label is toggled
Regenerates ==
  \/ ~editor.mounted /\ editor'.mounted /\ ~editor'.doc.hasSavedText
  \/ editor'.toggles # editor.toggles

\* a completed page holding the blocks
PageOf(blocks) ==
  [PendingPage EXCEPT !.status = "completed", !.imageUrl = "path",
                      !.hasBlocks = TRUE, !.blocks = blocks]

Projects ==
  /\ Regenerates =>
       /\ editor'.cleanText =
            ClaimedCleanText(editor'.doc.pages, editor'.selectedLabels)
       /\ (/\ editor'.doc.pages = << PageOf(TitledBlocks) >>
           /\ editor'.selectedLabels = << "MAIN_TEXT" >>)
            => editor'.cleanText = "Body"
  /\ editor.mounted => editor'.doc = editor.doc

\* C22: the transcript the editor regenerates is reconstructCleanText of the
\* pages and the labels selected after the step: the text of exactly the
\* blocks whose label is selected, over the pages in index order and the
\* blocks in list order, joined by blank lines; the pages are not modified;
\* with only MAIN_TEXT selected on a page of one TITLE and one MAIN_TEXT
\* block it is the text of the MAIN_TEXT block.
C22_CleanTextProjection == [][Projects]_vars

\* two pages, MAIN_TEXT and FOOTNOTE selected: the title of page 1 is left
\* out, the texts follow in page and block order
C22_Witness ==
  /\ editor.mounted
  /\ editor.doc.pages = << PageOf(TitledBlocks), PageOf(BodyBlocks) >>
  /\ editor.selectedLabels = << "MAIN_TEXT", "FOOTNOTE" >>
  /\ editor.cleanText = "Body\n\nBody\n\nn1"

\* the step is a call of handleSave: onSave gets the transcript of before
SavesTranscript ==
  /\ editor'.saves = Append(editor.saves, [docId |-> editor.doc.id,
                                           newText |-> editor.cleanText])
  /\ editor'.cleanText = editor.cleanText
  /\ editor'.selectedLabels = editor.selectedLabels
  /\ editor'.isSaved

EditsHeld ==
  /\ editor.mounted => editor'.doc = editor.doc
  /\ editor'.saves # editor.saves => SavesTranscript
  /\ (editor.mounted /\ editor'.cleanText # editor.cleanText) =>
       /\ editor'.saves = editor.saves
       /\ ~editor'.isSaved
  /\ editor'.selectedLabels # editor.selectedLabels =>
       /\ editor'.saves = editor.saves
       /\ ~editor'.isSaved

\* what the user typed and has not saved is still the transcript after a
\* change of the selected labels
EditsSurvive ==
  (/\ editor.cleanText = "my edit" /\ ~editor.isSaved
   /\ editor'.selectedLabels # editor.selectedLabels)
    => editor'.cleanText = editor.cleanText

\* C23 as stated: text edits and label toggles never call onSave and never
\* modify the document, onSave is called only by handleSave with the current
\* transcript, and unsaved edits are not lost when the selected labels change.
C23_Original == [][EditsHeld /\ EditsSurvive]_vars

\* a toggle replaces the transcript by the projection of the pages
ToggleRegenerates ==
  editor'.selectedLabels # editor.selectedLabels =>
    editor'.cleanText =
      ClaimedCleanText(editor.doc.pages, editor'.selectedLabels)

\* C23 (amended): text edits and label toggles never call onSave and never
\* modify the document (its pages, its savedText), onSave is called only by
\* handleSave and receives the current transcript; a label toggle replaces
\* the transcript by the projection of the pages, so edits that were not
\* saved before the toggle are discarded.
C23_EditsHeldUntilSaved == [][EditsHeld /\ ToggleRegenerates]_vars

\* the user typed, saved, then typed again: onSave was called once, with
\* the first text, and the document still holds its own saved text
C23_Witness ==
  /\ editor.saves = << [docId |-> "A", newText |-> "my edit"] >>
  /\ editor.cleanText = "" /\ ~editor.isSaved
  /\ editor.doc.hasSavedText /\ editor.doc.savedText = "saved text"

\* no request that arrived after u has begun: nothing but the run of u (and
\* requests that ended before it) works on the store
Alone(u) == \A v \in Reqs : v > u => req[v].pc = "idle"

PrefixOfProgress(u) ==
  LET id == req[u].id
      d == meta[id].doc
      i == req[u].i
  IN /\ MetaReadable(id)
     /\ d.status = "processing"
     /\ Len(d.pages) = Len(req[u].read.pages)
     /\ \A j \in 1..i : d.pages[j].status \in {"completed", "error"}
     /\ \A j \in (i + 1)..Len(d.pages) : d.pages[j] = req[u].read.pages[j]

\* C24: while a run that no upsert or delete of the same id overlaps reads
\* the image of page i or waits for its OCR call, the stored status is
\* processing, every page before i is stored as completed or error, and page
\* i and every later page are stored as the run read them at startup.
C24_PrefixOfProgress ==
  \A u \in Reqs :
    (req[u].pc \in {"rimg", "ocr"} /\ Alone(u)) => PrefixOfProgress(u)

\* the OCR call of page 3 of a 3-page document: page 1 stored completed,
\* page 2 stored error, page 3 still pending
C24_Witness ==
  \E u \in Reqs :
    /\ req[u].pc = "ocr" /\ req[u].i = 2 /\ Alone(u)
    /\ Statuses(meta[req[u].id].doc) = << "completed", "error", "pending" >>
    /\ meta[req[u].id].doc.status = "processing"

\* the ways a run returns
RunEnds == {"aborted", "finished", "fatal"}

\* no awaited operation has thrown and no delete was requested
NothingFailed == faults' = 0 /\ \A v \in Reqs : req'[v].run # "delete"

RunsToAnEnd(u) ==
  LET id == req[u].id IN
    /\ (Engaged(u) /\ Ends(u)) =>
         /\ req'[u].run \in RunEnds
         /\ id \notin activeProcessing'
         /\ req'[u].run = "aborted" <=> req'[u].read = NoDoc
         /\ (req'[u].read # NoDoc /\ NothingFailed) =>
              /\ req'[u].run = "finished"
              /\ StoredAfter(id)
              /\ meta'[id].doc.status \in {"ready", "error"}
    /\ Finishes(u) =>
         /\ StoredAfter(id)
         /\ meta'[id].doc.status \in {"ready", "error"}
    /\ req[u].pc = "done" => req'[u] = req[u]

\* C25: when every awaited operation returns or throws, every run that
\* passed the guard returns, as aborted, finished or through the outer catch
\* block, with its id removed from activeProcessing, and does nothing
\* afterwards; only a run that could not read the metadata ends as aborted;
\* a run that read the metadata ends as finished when nothing threw and the
\* document was not deleted, and the status stored when a run finishes is
\* ready or error.
C25_RunTerminates ==
  /\ [][\A u \in Reqs : RunsToAnEnd(u)]_vars
  /\ \A u \in Reqs :
       (req[u].pc = "delay") ~> (req[u].pc = "done" /\ req[u].run \in RunEnds)

\* a run over two pages ended with nothing thrown and status ready stored
C25_Witness ==
  \E u \in Reqs :
    /\ req[u].pc = "done" /\ req[u].run = "finished" /\ faults = 0
    /\ Len(req[u].read.pages) = 2
    /\ MetaExists(req[u].id) /\ meta[req[u].id].doc.status = "ready"
    /\ \A v \in Reqs : req[v].run # "delete"

\* the page numbers that were not completed in the metadata the run read
ToDo(u) == {k \in 1..Len(req[u].read.pages) :
              req[u].read.pages[k].status # "completed"}

\* the page numbers the run handed to the OCR adapter
Ocred(u) == {ocrLog[u][j] + 1 : j \in 1..Len(ocrLog[u])}

\* the run works on a document an earlier run left with a failed page
IsRetry(u) ==
  \E k \in 1..Len(req[u].read.pages) : req[u].read.pages[k].status = "error"

\* C26 as stated: a run on a document that an earlier run left with failed
\* pages hands every page that is not completed to the OCR adapter, once and
\* in index order.
C26_Original ==
  [][\A u \in Reqs :
       (Finishes(u) /\ IsRetry(u)) =>
         /\ Increasing(ocrLog[u])
         /\ Ocred(u) = ToDo(u)]_vars

RetryStep(u) ==
  LET id == req[u].id
      i == req[u].i
      stored == meta'[id].doc
  IN /\ (req[u].pc = "rimg" /\ req'[u].pc = "ocr") =>
          /\ (i + 1) \in ToDo(u)
          /\ ocrLog'[u] = Append(ocrLog[u], i)
     /\ ocrLog'[u] # ocrLog[u] => req[u].pc = "rimg"
     /\ (req[u].pc = "ocr" /\ req'[u].pc = "wmd") =>
          /\ req'[u].doc.pages[i + 1].status = "completed"
          /\ req'[u].doc.pages[i + 1].hasBlocks
          /\ req'[u].doc.pages[i + 1].blocks \in OcrResults
     /\ Finishes(u) =>
          /\ Increasing(ocrLog[u])
          /\ Ocred(u) \subseteq ToDo(u)
          /\ ToDo(u) \ Ocred(u) \subseteq {j + 1 : j \in req[u].failed}
          /\ \A k \in ToDo(u) :
               IF (k - 1) \in req[u].failed
                 THEN stored.pages[k].status = "error"
               ELSE /\ stored.pages[k].status = "completed"
                    /\ stored.pages[k].hasBlocks
                    /\ k \in Ocred(u)
          /\ \A k \in 1..Len(stored.pages) :
               k \notin ToDo(u) => stored.pages[k] = req[u].read.pages[k]
          /\ stored.status =
               IF \E k \in 1..Len(stored.pages) :
                    stored.pages[k].status # "error"
                 THEN "ready" ELSE "error"

\* C26 (amended): a run on a document left by an earlier run visits every
\* page that is not completed, in index order, and hands it to the OCR
\* adapter once if its image file could be read (a page whose image is
\* missing or cannot be read is marked error without an OCR call); a page
\* whose OCR call, markdown write and metadata write succeed is stored as
\* completed with the returned blocks, every other visited page as error;
\* the final status is computed over all pages, so a document that ended in
\* error becomes ready when one page succeeds.
C26_RetryByRerun == [][\A u \in Reqs : RetryStep(u)]_vars

\* a document that ended in error with both pages failed was run again:
\* page 2 succeeded and the document is ready
C26_Witness ==
  \E u \in Reqs :
    /\ req[u].run = "finished" /\ req[u].read.status = "error"
    /\ Statuses(req[u].read) = << "error", "error" >>
    /\ ocrLog[u] = << 0, 1 >>
    /\ MetaExists(req[u].id) /\ writer[req[u].id] = "engine"
    /\ Statuses(meta[req[u].id].doc) = << "error", "completed" >>
    /\ meta[req[u].id].doc.pages[2].hasBlocks
    /\ meta[req[u].id].doc.status = "ready"

\* the run of u gives up reading the metadata in this step
GivesUp(u) == req[u].run # "aborted" /\ req'[u].run = "aborted"

StartupRetries(u) ==
  LET id == req[u].id IN
    /\ StartupStep(u) =>
         /\ req[u].pc = "delay" => req'[u].pc \in {"rmeta", "backoff"}
         /\ req'[u].read # NoDoc =>
              /\ req[u].pc = "rmeta"
              /\ req'[u].pc \notin StartupPcs
         /\ (req[u].pc = "rmeta" /\ req'[u].read = NoDoc) =>
              req'[u].pc = "backoff"
    /\ GivesUp(u) =>
         /\ req[u].pc = "backoff"
         /\ req'[u].attempt = MaxAttempts

\* C27: the engine reads metadata.json only after the startup delay, makes
\* at most five attempts and waits the backoff after every attempt that
\* failed, when the file does not exist as well as when reading or parsing
\* it throws: a run gives up only after the wait that follows its fifth
\* failed attempt, and the first read that succeeds ends the retrying.
C27_StartupBackoff ==
  /\ [][\A u \in Reqs : StartupRetries(u)]_vars
  /\ [](\A u \in Reqs : req[u].attempt <= MaxAttempts)

\* everything stored below DATA_DIR for the document id
StoredFor(id) ==
  << dir[DirOf(id)], meta[DirOf(id)], imgs[DirOf(id)], md[DirOf(id)] >>

\* request v acts in this step, for an id other than that of request u
OtherActs(u, v) ==
  /\ req'[v] # req[v]
  /\ req[u].pc # "idle"
  /\ req'[v].id # req[u].id

Isolated(u, v) ==
  OtherActs(u, v) =>
    /\ StoredFor(req[u].id)' = StoredFor(req[u].id)
    /\ (req[u].id \in activeProcessing') <=> (req[u].id \in activeProcessing)
    /\ req'[u] = req[u] /\ ocrLog'[u] = ocrLog[u]

\* C28: requests and runs of different ids do not interfere: a step of a
\* request or run for one id changes no file stored for a document of
\* another id and neither adds that id to activeProcessing nor removes it,
\* so what is stored for a document is what its own requests and run
\* wrote, whatever the runs of other ids do.
C28_RunsIsolated == [][\A u, v \in Reqs : Isolated(u, v)]_vars

\* the run of u rewrites metadata.json in this step
EngineWrites(u) ==
  /\ Engaged(u) /\ req'[u] # req[u]
  /\ meta'[req[u].id] # meta[req[u].id]

\* the markdown files of the pages this run has stored as completed
ProjectionsStored(u, stored, files) ==
  \A k \in ToDo(u) :
    stored.pages[k].status = "completed" =>
      files[k] = MarkdownFile(BlocksOf(stored.pages[k]))

\* C29 as stated: in every metadata snapshot the engine writes, a page the
\* run marked completed has a markdown file equal to the markdown of its
\* stored blocks.
C29_Original ==
  [][\A u \in Reqs :
       (EngineWrites(u) /\ req[u].run # "fatal") =>
         ProjectionsStored(u, meta'[req[u].id].doc, md'[req[u].id])]_vars

MarkdownFirst(u) ==
  LET id == req[u].id
      i == req[u].i
  IN /\ (Engaged(u) /\ req[u].pc # "wmeta" /\ req'[u].pc = "wmeta") =>
          /\ req[u].pc = "wmd"
          /\ req[u].doc.pages[i + 1].status = "completed"
          /\ md'[id][i + 1] = MarkdownFile(BlocksOf(req[u].doc.pages[i + 1]))
          /\ UNCHANGED meta
     /\ (Engaged(u) /\ req'[u] # req[u] /\ md' # md) =>
          /\ req[u].pc = "wmd"
          /\ \A n \in PageNos \ {i + 1} : md'[id][n] = md[id][n]
     /\ (EngineWrites(u) /\ req[u].run # "fatal") =>
          /\ meta'[id].doc = req[u].doc
          /\ \A k \in ToDo(u) :
               meta'[id].doc.pages[k].status = "completed" =>
                 /\ (k - 1) \notin req[u].failed
                 /\ k <= i \/ (k = i + 1 /\ req[u].pc = "wmeta")
     /\ (req[u].pc \in {"wmd", "wmeta"} /\ req'[u].pc = "werr"
           /\ req'[u].i = i) =>
          /\ req'[u].doc.pages[i + 1].status = "error"
          /\ UNCHANGED meta
     /\ (req[u].pc = "werr" /\ EngineWrites(u)) =>
          meta'[id].doc.pages[i + 1].status = "error"

\* request u is the only one that has arrived
Solo(u) == \A v \in Reqs \ {u} : req[v].pc = "idle"

\* C29 (amended): the engine writes page_<i+1>.md, the markdown of the
\* blocks it attached, before the metadata write that first stores page i as
\* completed, and writes no other markdown file in between; a page whose
\* markdown or metadata write threw is error in the run's document and is
\* stored as error by the write of the catch block; hence, while no other
\* request has rewritten or removed the files, every page the run stored as
\* completed has a markdown file equal to the markdown of its stored blocks.
C29_MarkdownFirst ==
  /\ [][\A u \in Reqs : MarkdownFirst(u)]_vars
  /\ [](\A u \in Reqs :
          (Solo(u) /\ req[u].read # NoDoc /\ EngineWrote(req[u].id)) =>
            ProjectionsStored(u, meta[req[u].id].doc, md[req[u].id]))

\* the only request so far: its run stored page 1 as completed and the
\* markdown file holds the title
C29_Witness ==
  \E u \in Reqs :
    /\ Solo(u) /\ req[u].run = "finished"
    /\ EngineWrote(req[u].id)
    /\ Len(meta[req[u].id].doc.pages) = 1 /\ 1 \in ToDo(u)
    /\ meta[req[u].id].doc.pages[1].status = "completed"
    /\ meta[req[u].id].doc.pages[1].blocks = HelloBlocks
    /\ md[req[u].id][1] = [exists |-> TRUE, text |-> "# Hello\n\n"]

\* C30: startProcessing is a one-shot trigger: it is not left set in the
\* stored record nor in the document the upsert answers with, so that a
\* document posted exactly as it was read back from the store starts no run.
C30_OneShot ==
  /\ \A id \in Ids : MetaReadable(id) => ~meta[id].doc.startProcessing
  /\ \A u \in Reqs :
       (IsUpsert(u) /\ req[u].resp = "ok") => ~req[u].doc.startProcessing

HasSavedText(d) == "savedText" \in DOMAIN d

\* the run of u ends in this step with a write of metadata.json
EndsWithWrite(u) ==
  /\ Engaged(u) /\ req'[u].pc = "done"
  /\ meta'[req[u].id] # meta[req[u].id]

\* C31 as stated: every persist of a run stores the snapshot the run read at
\* startup, so savedText set by an upsert that completed after the startup
\* read and before the run's last write is absent from the stored document
\* when the run ends.
C31_Original ==
  [][\A u \in Reqs :
       (EndsWithWrite(u) /\ req[u].read # NoDoc /\ ~HasSavedText(req[u].read))
         => ~HasSavedText(meta'[req[u].id].doc)]_vars

\* the fields of the document that no statement of the run assigns
Untouched(d, e) ==
  /\ HasSavedText(d) = HasSavedText(e)
  /\ d.type = e.type /\ d.startProcessing = e.startProcessing
  /\ Len(d.pages) = Len(e.pages)

LastWriterWins(u) ==
  LET id == req[u].id IN
    /\ (Engaged(u) /\ req[u].read # NoDoc /\ req[u].run # "fatal") =>
         Untouched(req[u].doc, req[u].read)
    /\ (Engaged(u) /\ req'[u] # req[u] /\ req[u].read # NoDoc) =>
         req'[u].read = req[u].read
    /\ (EngineWrites(u) /\ req[u].run # "fatal") =>
         /\ meta'[id].doc = req[u].doc
         /\ Untouched(meta'[id].doc, req[u].read)
    /\ (EngineWrites(u) /\ req[u].run = "fatal") =>
         /\ req[u].pc = "fwrite"
         /\ meta'[id].doc.status = "error"

\* C31 (amended): the run reads metadata.json once at startup and the page
\* loop never reads it again; every write of the page loop and the final
\* status write store the run's in-memory snapshot (last writer wins), so
\* savedText set by an upsert that completed in between is absent from the
\* stored document when the run ends with its final write; only the outer
\* catch block reads the file again and stores that record with status error.
C31_LastWriterWins ==
  /\ [][\A u \in Reqs : LastWriterWins(u)]_vars
  /\ [][\A u \in Reqs :
         (EndsWithWrite(u) /\ req[u].read # NoDoc /\ req'[u].run = "finished"
           /\ ~HasSavedText(req[u].read))
           => ~HasSavedText(meta'[req[u].id].doc)]_vars

\* a save completed while the run was in its page loop, and the finished
\* run has stored its own record, without savedText, over it
C31_Witness ==
  \E u, v \in Reqs :
    /\ u # v /\ req[u].id = req[v].id
    /\ req[u].run = "finished" /\ ~HasSavedText(req[u].read)
    /\ req[v].pc = "done" /\ req[v].resp = "ok" /\ HasSavedText(req[v].doc)
    /\ MetaReadable(req[u].id) /\ writer[req[u].id] = "engine"
    /\ ~HasSavedText(meta[req[u].id].doc)

\* the directory of the run's document is gone
DeletedUnder(u) == Engaged(u) /\ ~dir[req[u].id]

\* one step of a run whose directory is gone
RunAfterDelete(u) ==
  LET id == req[u].id
      pc == req[u].pc
  IN (DeletedUnder(u) /\ req'[u] # req[u]) =>
       /\ UNCHANGED << dir, meta, imgs, md >>
       /\ pc \in {"delay", "backoff"} =>
            (req'[u].pc = "done" /\ req'[u].run = "aborted")
       /\ pc = "rmeta" => req'[u].pc = "backoff"
       /\ pc \in {"rimg", "wmd", "wmeta"} =>
            /\ req'[u].pc = "werr"
            /\ req'[u].failed = req[u].failed \cup {req[u].i}
       /\ pc = "ocr" => req'[u].pc \in {"wmd", "werr"}
       /\ pc \in {"wstatus", "werr", "wfinal"} =>
            (req'[u].pc = "done" /\ req'[u].run = "fatal")
       /\ pc \in {"fread", "fwrite"} => req'[u].pc = "done"
       /\ req'[u].pc = "done" => id \notin activeProcessing'

\* C32: when a delete has removed the directory of a document while a run
\* for it is active, and until the id is upserted again, no step of the run
\* creates the directory, metadata.json or a page file: the page in progress
\* fails, the metadata write of the catch block fails, the outer catch block
\* finds no metadata.json and writes nothing, and the run ends with the id
\* removed from activeProcessing and the directory still absent.
C32_RunAfterDelete ==
  /\ [][\A u \in Reqs : RunAfterDelete(u)]_vars
  /\ \A u \in Reqs :
       DeletedUnder(u) ~> (req[u].pc = "done" \/ dir[req[u].id])

\* a delete removed the directory during the OCR call of a run: the page
\* failed, the run ended through the outer catch block and nothing is stored
C32_Witness ==
  \E u, v \in Reqs :
    /\ req[v].run = "delete" /\ req[v].pc = "done" /\ req[v].id = req[u].id
    /\ req[u].pc = "done" /\ req[u].run = "fatal" /\ req[u].failed = {0}
    /\ Len(ocrLog[u]) = 1
    /\ ~dir[req[u].id] /\ meta[req[u].id] = NoMeta
    /\ req[u].id \notin activeProcessing

\* the run of u read a document whose pages list is empty
EmptyRun(u) ==
  /\ req[u].run \in {"active", "finished", "fatal"}
  /\ req[u].read # NoDoc
  /\ req[u].read.pagesArray /\ Len(req[u].read.pages) = 0

RunOfNoPages(u) ==
  LET id == req[u].id IN
    (EmptyRun(u) /\ Engaged(u) /\ req'[u] # req[u]) =>
      /\ UNCHANGED << md, ocrLog >>
      /\ req'[u].pc \notin {"rimg", "ocr", "wmd", "wmeta", "werr"}
      /\ (meta'[id] # meta[id] /\ req[u].run # "fatal") =>
           /\ meta'[id].doc.processedPages = req[u].read.processedPages
           /\ meta'[id].doc.pages = << >>
      /\ req'[u].run = "finished" =>
           /\ req[u].pc = "wfinal"
           /\ meta'[id].doc.status = "error"

\* C33: a run on a document whose pages list is empty makes no OCR call and
\* writes no markdown file, stores processedPages as it read it, and the
\* final write with which it finishes stores status error, not ready.
C33_RunOfNoPages ==
  /\ [](\A u \in Reqs : EmptyRun(u) => ocrLog[u] = << >>)
  /\ [][\A u \in Reqs : RunOfNoPages(u)]_vars

\* a run on a document without pages finished, nothing thrown: the stored
\* status is error and no markdown file exists
C33_Witness ==
  \E u \in Reqs :
    /\ EmptyRun(u) /\ req[u].run = "finished" /\ req[u].pc = "done"
    /\ faults = 0 /\ ocrLog[u] = << >>
    /\ MetaReadable(req[u].id) /\ writer[req[u].id] = "engine"
    /\ meta[req[u].id].doc.status = "error"
    /\ meta[req[u].id].doc.processedPages = 0
    /\ \A n \in PageNos : md[req[u].id][n] = NoFile

====
